---- MODULE Spec2Model ----
(***************************************************************************)
(* Model of the REST clients of the test-automation suite: AuthAPI         *)
(* (src/api/auth_api.py) and EventsAPI (src/api/events_api.py).  Each      *)
(* client operation issues one HTTP request on a requests.Session and maps *)
(* the raw exchange (a transport exception, or a status code with a body)  *)
(* to a response record (AuthResponse, EventResponse, EventsListResponse). *)
(*                                                                         *)
(* The Russian string literals of the source are written transliterated    *)
(* (the module is ASCII); the transliteration is one-to-one on the         *)
(* literals that occur, so equal literals stay equal and distinct literals *)
(* stay distinct.                                                          *)
(***************************************************************************)
EXTENDS Integers, Sequences, FiniteSets, TLC

VARIABLES
    jsonErrorIsRequestException, \* the installed requests library: does Response.json()
                                 \* raise requests.exceptions.JSONDecodeError (a
                                 \* RequestException, requests >= 2.27) or a plain ValueError
    call,                        \* the last client operation called, with its arguments
    exch,                        \* the HTTP exchange of that call, as the transport produced it
    result,                      \* what the call gave its caller: a record, or a raised exception
    bodyRead,                    \* whether the call read the response body (.json() / .content)
    nreq,                        \* the number of HTTP requests issued so far
    req,                         \* the HTTP request of the last call
    descriptor,                  \* the UserData / EventData object of the last call, as the
                                 \* call left it
    events_session,              \* the Authorization header of the EventsAPI session
    ctor_token,                  \* the auth_token the EventsAPI was constructed with
    token_set,                   \* the token of the latest set_auth_token call of the test
    auth_session,                \* the AuthAPI session: the Authorization header among its
                                 \* default headers, and the tokens its requests carried so far
    fixture,                     \* the cleanup_events fixture around a test: its position, its
                                 \* event_ids, and the events on the server
    page,                        \* the page in the browser, and the last page-object method
                                 \* called on it with what it did and gave
    driver_fixture               \* the driver fixture around a test: its position, its
                                 \* driver, and the quit() calls made

\* The variables of the two API clients and of their caller.
clientVars ==
    <<jsonErrorIsRequestException, call, exch, result, bodyRead, nreq, req,
      descriptor, events_session, ctor_token, token_set, auth_session>>

\* The variables of the fixtures and pages around them.
otherVars == <<fixture, page, driver_fixture>>

vars == <<clientVars, otherVars>>

\* The number of client calls a behaviour makes.
MaxRequests == 2

-----------------------------------------------------------------------------
(* Python and JSON values *)

\* Python's None in a string-valued field (also the value of a JSON null).
None == "None"
\* status_code = None: no status code (HTTP status codes are >= 100).
NoStatus == 0
\* A key that a JSON object does not have.
Absent == "<absent>"
\* No exception.
NoExc == "NoExc"

\* The values of the list-valued key "events" and of the number-valued key "total":
\* tagged, because a key may be absent, null, or hold a value.
AbsentList == [t |-> "absent", v |-> <<>>]
NoneList == [t |-> "null", v |-> <<>>]
PyList(s) == [t |-> "list", v |-> s]
AbsentInt == [t |-> "absent", v |-> 0]
NoneInt == [t |-> "null", v |-> 0]
PyInt(n) == [t |-> "int", v |-> n]

\* A response body.  kind: "empty" (no content), "malformed" (content that is not
\* JSON), "nonobject" (JSON that is not an object: a list, a string, null, ...),
\* "object" (a JSON object, with the keys the clients look up).
BlankBody(kind) ==
    [kind |-> kind, error |-> Absent, message |-> Absent, token |-> Absent,
     user_id |-> Absent, id |-> Absent, events |-> AbsentList, total |-> AbsentInt]

\* data = None in an EventResponse.
NoData == BlankBody("none")

SampleEvent == [id |-> "e1", title |-> "t1"]

JsonStr(sample) == {Absent, None, sample}

\* JSON objects a server may answer with: error objects, auth objects, event
\* objects and list objects (every operation may receive every one of them).
ErrorObjects ==
    { [BlankBody("object") EXCEPT !.error = e, !.message = m] :
        e \in JsonStr("bad credentials"), m \in JsonStr("msg") }
AuthObjects ==
    { [BlankBody("object") EXCEPT !.token = t, !.user_id = u, !.message = m] :
        t \in JsonStr("abc"), u \in JsonStr("u1"), m \in JsonStr("msg") }
EventObjects ==
    { [BlankBody("object") EXCEPT !.id = i, !.error = e] :
        i \in JsonStr("e9"), e \in JsonStr("bad credentials") }
ListObjects ==
    { [BlankBody("object") EXCEPT !.events = ev, !.total = n] :
        ev \in {AbsentList, NoneList, PyList(<<>>), PyList(<<SampleEvent>>)},
        n \in {AbsentInt, NoneInt, PyInt(0), PyInt(1)} }

Bodies ==
    {BlankBody("empty"), BlankBody("malformed"), BlankBody("nonobject")}
        \cup ErrorObjects \cup AuthObjects \cup EventObjects \cup ListObjects

\* The status codes a server answers with.
Statuses == {200, 201, 204, 400, 401, 404, 500}

\* What session.get / post / put / delete gives: a transport exception
\* (requests.exceptions.Timeout or ConnectionError), or a response.
Exchanges ==
    { [exc |-> e, status |-> NoStatus, body |-> BlankBody("empty")] :
        e \in {"Timeout", "ConnectionError"} }
    \cup { [exc |-> NoExc, status |-> s, body |-> b] : s \in Statuses, b \in Bodies }

EventIds == {"e1", "e2"}

-----------------------------------------------------------------------------
(* Exceptions *)

\* except Timeout: requests.exceptions.Timeout.
IsTimeout(e) == e = "Timeout"

\* An except clause that takes a ConnectionError for no RequestException (C11 must
\* tell it from IsRequestException).
IsRequestException_without_connection(e) ==
    \/ e = "Timeout"
    \/ e = "JSONDecodeError" /\ jsonErrorIsRequestException

\* except RequestException: Timeout and ConnectionError are RequestExceptions; the
\* error of Response.json() is one in requests >= 2.27 only; AttributeError never.
IsRequestException(e) ==
    \/ e \in {"Timeout", "ConnectionError"}
    \/ e = "JSONDecodeError" /\ jsonErrorIsRequestException

\* str(e)
str(e) == "str(" \o e \o ")"

\* The outcome of a try block: a returned value or a raised exception, and whether
\* the response body was read on the way.
Return(v, read) == [exc |-> NoExc, val |-> v, read |-> read]
Raise(e, read) == [exc |-> e, val |-> [cls |-> "Raised", exc |-> e], read |-> read]

\* An exception that no except clause catches reaches the caller.
Propagate(e) == [cls |-> "Raised", exc |-> e]

\* response.json(): raises on an empty or malformed content.
json_raises(body) == body.kind \in {"empty", "malformed"}

\* data.get(...): only a dict has .get; anything else raises AttributeError.
get_raises(data) == data.kind # "object"

\* data.get(key) / data.get(key, default) on a dict, for a string-valued key.
get(data, key, default) == IF data[key] = Absent THEN default ELSE data[key]

\* data.get(key, default) on a dict, for the keys "events" and "total".
get_tagged(data, key, default) ==
    IF data[key].t = "absent" THEN default ELSE data[key]

\* response.content is truthy.
content(body) == body.kind # "empty"

-----------------------------------------------------------------------------
(* The response records *)

AuthResponse(success, token, user_id, message, status_code, error) ==
    [cls |-> "AuthResponse", success |-> success, token |-> token,
     user_id |-> user_id, message |-> message, status_code |-> status_code,
     error |-> error]

EventResponse(success, event_id, data, message, status_code, error) ==
    [cls |-> "EventResponse", success |-> success, event_id |-> event_id,
     data |-> data, message |-> message, status_code |-> status_code,
     error |-> error]

\* A __post_init__ that leaves events = None (C7 must tell it from post_init).
post_init_keeps_none(events) == events

\* EventsListResponse.__post_init__: events None becomes [].
post_init(events) == IF events.t = "null" THEN PyList(<<>>) ELSE events

EventsListResponse(success, events, total, message, status_code, error) ==
    [cls |-> "EventsListResponse", success |-> success,
     events |-> post_init(events), total |-> total, message |-> message,
     status_code |-> status_code, error |-> error]

\* error_data = response.json() if response.content else {} ; then
\* error_data.get('error', generic) and error_data.get('message'): the exception
\* this raises, if any.
error_data_raises(body) ==
    IF ~content(body) THEN NoExc
    ELSE IF json_raises(body) THEN "JSONDecodeError"
    ELSE IF get_raises(body) THEN "AttributeError"
    ELSE NoExc

\* error_data itself, when nothing raised.
error_data(body) == IF content(body) THEN body ELSE BlankBody("object")

\* data = response.json() followed by data.get(...): the exception raised, if any.
data_get_raises(body) ==
    IF json_raises(body) THEN "JSONDecodeError"
    ELSE IF get_raises(body) THEN "AttributeError"
    ELSE NoExc

-----------------------------------------------------------------------------
(* AuthAPI *)

\* A success branch with data.get('message') without its default (C12 must tell it
\* from login_ok).
login_ok_without_default(x) ==
    LET e == data_get_raises(x.body) IN
    IF e # NoExc THEN Raise(e, TRUE)
    ELSE Return(AuthResponse(TRUE, get(x.body, "token", None),
                             get(x.body, "user_id", None),
                             get(x.body, "message", None),
                             x.status, None), TRUE)

\* login, status 200: data = response.json(); AuthResponse(success=True, ...).
login_ok(x) ==
    LET e == data_get_raises(x.body) IN
    IF e # NoExc THEN Raise(e, TRUE)
    ELSE Return(AuthResponse(TRUE, get(x.body, "token", None),
                             get(x.body, "user_id", None),
                             get(x.body, "message", "Avtorizatsiya uspeshna"),
                             x.status, None), TRUE)

\* login, any other status: error_data = response.json() if response.content else {}.
login_err(x) ==
    LET e == error_data_raises(x.body)
        d == error_data(x.body)
    IN  IF e # NoExc THEN Raise(e, TRUE)
        ELSE Return(AuthResponse(FALSE, None, None, get(d, "message", None),
                                 x.status, get(d, "error", "Oshibka avtorizatsii")),
                    TRUE)

\* The try block of login.
login_try(x) ==
    IF x.exc # NoExc THEN Raise(x.exc, FALSE)
    ELSE IF x.status = 200 THEN login_ok(x)
    ELSE login_err(x)

\* login: except Timeout / except RequestException / except Exception.
login(x) ==
    LET o == login_try(x) IN
    IF o.exc = NoExc THEN o.val
    ELSE IF IsTimeout(o.exc) THEN
        AuthResponse(FALSE, None, None,
                     "Prevysheno vremya ozhidaniya otveta ot servera",
                     NoStatus, "Taymaut soedineniya")
    ELSE IF IsRequestException(o.exc) THEN
        AuthResponse(FALSE, None, None, str(o.exc), NoStatus, "Oshibka seti")
    ELSE AuthResponse(FALSE, None, None, str(o.exc), NoStatus, "Vnutrennyaya oshibka")

\* The try block of logout: the body is not read.
logout_try(x) ==
    IF x.exc # NoExc THEN Raise(x.exc, FALSE)
    ELSE IF x.status = 200 THEN
        Return(AuthResponse(TRUE, None, None, "Vykhod vypolnen uspeshno",
                            x.status, None), FALSE)
    ELSE Return(AuthResponse(FALSE, None, None, None, x.status,
                             "Oshibka vykhoda iz sistemy"), FALSE)

\* logout: except Exception.
logout(x) ==
    LET o == logout_try(x) IN
    IF o.exc = NoExc THEN o.val
    ELSE AuthResponse(FALSE, None, None, str(o.exc), NoStatus, "Oshibka seti")

\* validate_token, status 200: data = response.json(); user_id = data.get('user_id').
validate_token_ok(x) ==
    LET e == data_get_raises(x.body) IN
    IF e # NoExc THEN Raise(e, TRUE)
    ELSE Return(AuthResponse(TRUE, None, get(x.body, "user_id", None),
                             "Token validen", x.status, None), TRUE)

\* The try block of validate_token.
validate_token_try(x) ==
    IF x.exc # NoExc THEN Raise(x.exc, FALSE)
    ELSE IF x.status = 200 THEN validate_token_ok(x)
    ELSE Return(AuthResponse(FALSE, None, None, None, x.status, "Token nevaliden"),
                FALSE)

\* validate_token: except Exception.
validate_token(x) ==
    LET o == validate_token_try(x) IN
    IF o.exc = NoExc THEN o.val
    ELSE AuthResponse(FALSE, None, None, str(o.exc), NoStatus, "Oshibka seti")

\* refresh_token, status 200: data = response.json(); token = data.get('token').
refresh_token_ok(x) ==
    LET e == data_get_raises(x.body) IN
    IF e # NoExc THEN Raise(e, TRUE)
    ELSE Return(AuthResponse(TRUE, get(x.body, "token", None), None,
                             "Token obnovlen", x.status, None), TRUE)

\* The try block of refresh_token.
refresh_token_try(x) ==
    IF x.exc # NoExc THEN Raise(x.exc, FALSE)
    ELSE IF x.status = 200 THEN refresh_token_ok(x)
    ELSE Return(AuthResponse(FALSE, None, None, None, x.status,
                             "Oshibka obnovleniya tokena"), FALSE)

\* refresh_token: except Exception.
refresh_token(x) ==
    LET o == refresh_token_try(x) IN
    IF o.exc = NoExc THEN o.val
    ELSE AuthResponse(FALSE, None, None, str(o.exc), NoStatus, "Oshibka seti")

\* register, status 201: data = response.json(); AuthResponse(success=True, ...).
register_ok(x) ==
    LET e == data_get_raises(x.body) IN
    IF e # NoExc THEN Raise(e, TRUE)
    ELSE Return(AuthResponse(TRUE, get(x.body, "token", None),
                             get(x.body, "user_id", None),
                             "Registratsiya uspeshna", x.status, None), TRUE)

\* register, any other status.
register_err(x) ==
    LET e == error_data_raises(x.body)
        d == error_data(x.body)
    IN  IF e # NoExc THEN Raise(e, TRUE)
        ELSE Return(AuthResponse(FALSE, None, None, get(d, "message", None),
                                 x.status, get(d, "error", "Oshibka registratsii")),
                    TRUE)

\* register taking 200 for its success code (C4 must tell it from register_try).
register_try_200(x) ==
    IF x.exc # NoExc THEN Raise(x.exc, FALSE)
    ELSE IF x.status = 200 THEN register_ok(x)
    ELSE register_err(x)

\* The try block of register.
register_try(x) ==
    IF x.exc # NoExc THEN Raise(x.exc, FALSE)
    ELSE IF x.status = 201 THEN register_ok(x)
    ELSE register_err(x)

\* register: except Exception.
register(x) ==
    LET o == register_try(x) IN
    IF o.exc = NoExc THEN o.val
    ELSE AuthResponse(FALSE, None, None, str(o.exc), NoStatus, "Oshibka seti")

-----------------------------------------------------------------------------
(* EventsAPI *)

\* create_event, status 201: data = response.json(); event_id = data.get('id').
create_event_ok(x) ==
    LET e == data_get_raises(x.body) IN
    IF e # NoExc THEN Raise(e, TRUE)
    ELSE Return(EventResponse(TRUE, get(x.body, "id", None), x.body,
                              "Sobytie sozdano uspeshno", x.status, None), TRUE)

\* create_event, any other status.
create_event_err(x) ==
    LET e == error_data_raises(x.body)
        d == error_data(x.body)
    IN  IF e # NoExc THEN Raise(e, TRUE)
        ELSE Return(EventResponse(FALSE, None, NoData, get(d, "message", None),
                                  x.status,
                                  get(d, "error", "Oshibka sozdaniya sobytiya")),
                    TRUE)

\* The try block of create_event.
create_event_try(x) ==
    IF x.exc # NoExc THEN Raise(x.exc, FALSE)
    ELSE IF x.status = 201 THEN create_event_ok(x)
    ELSE create_event_err(x)

\* create_event: except Timeout / except RequestException, and no other clause.
create_event(x) ==
    LET o == create_event_try(x) IN
    IF o.exc = NoExc THEN o.val
    ELSE IF IsTimeout(o.exc) THEN
        EventResponse(FALSE, None, NoData,
                      "Prevysheno vremya ozhidaniya otveta ot servera",
                      NoStatus, "Taymaut soedineniya")
    ELSE IF IsRequestException(o.exc) THEN
        EventResponse(FALSE, None, NoData, str(o.exc), NoStatus, "Oshibka seti")
    ELSE Propagate(o.exc)

\* get_event, status 200: data = response.json(); data is stored as it is.
get_event_ok(event_id, x) ==
    IF json_raises(x.body) THEN Raise("JSONDecodeError", TRUE)
    ELSE Return(EventResponse(TRUE, event_id, x.body,
                              "Sobytie polucheno uspeshno", x.status, None), TRUE)

\* A 404 branch that reads the error from the body, as the branch for the other
\* codes does (C8 must tell it from get_event_not_found).
get_event_not_found_from_body(x) ==
    LET e == error_data_raises(x.body)
        d == error_data(x.body)
    IN  IF e # NoExc THEN Raise(e, TRUE)
        ELSE Return(EventResponse(FALSE, None, NoData, None, x.status,
                                  get(d, "error", "Sobytie ne naydeno")), TRUE)

\* get_event, status 404.
get_event_not_found(x) ==
    Return(EventResponse(FALSE, None, NoData, None, x.status, "Sobytie ne naydeno"),
           FALSE)

\* get_event, any other status.
get_event_err(x) ==
    LET e == error_data_raises(x.body)
        d == error_data(x.body)
    IN  IF e # NoExc THEN Raise(e, TRUE)
        ELSE Return(EventResponse(FALSE, None, NoData, get(d, "message", None),
                                  x.status,
                                  get(d, "error", "Oshibka polucheniya sobytiya")),
                    TRUE)

\* The try block of get_event.
get_event_try(event_id, x) ==
    IF x.exc # NoExc THEN Raise(x.exc, FALSE)
    ELSE IF x.status = 200 THEN get_event_ok(event_id, x)
    ELSE IF x.status = 404 THEN get_event_not_found(x)
    ELSE get_event_err(x)

\* get_event: except Exception.
get_event(event_id, x) ==
    LET o == get_event_try(event_id, x) IN
    IF o.exc = NoExc THEN o.val
    ELSE EventResponse(FALSE, None, NoData, str(o.exc), NoStatus, "Oshibka seti")

\* update_event, status 200: data = response.json(); data is stored as it is.
update_event_ok(event_id, x) ==
    IF json_raises(x.body) THEN Raise("JSONDecodeError", TRUE)
    ELSE Return(EventResponse(TRUE, event_id, x.body,
                              "Sobytie obnovleno uspeshno", x.status, None), TRUE)

\* update_event, status 404.
update_event_not_found(x) ==
    Return(EventResponse(FALSE, None, NoData, None, x.status, "Sobytie ne naydeno"),
           FALSE)

\* An error branch with error and message swapped (C10 must tell it from
\* update_event_err).
update_event_err_swapped(x) ==
    LET e == error_data_raises(x.body)
        d == error_data(x.body)
    IN  IF e # NoExc THEN Raise(e, TRUE)
        ELSE Return(EventResponse(FALSE, None, NoData,
                                  get(d, "error", "Oshibka obnovleniya sobytiya"),
                                  x.status, get(d, "message", None)),
                    TRUE)

\* update_event, any other status.
update_event_err(x) ==
    LET e == error_data_raises(x.body)
        d == error_data(x.body)
    IN  IF e # NoExc THEN Raise(e, TRUE)
        ELSE Return(EventResponse(FALSE, None, NoData, get(d, "message", None),
                                  x.status,
                                  get(d, "error", "Oshibka obnovleniya sobytiya")),
                    TRUE)

\* The try block of update_event.
update_event_try(event_id, x) ==
    IF x.exc # NoExc THEN Raise(x.exc, FALSE)
    ELSE IF x.status = 200 THEN update_event_ok(event_id, x)
    ELSE IF x.status = 404 THEN update_event_not_found(x)
    ELSE update_event_err(x)

\* update_event: except Exception.
update_event(event_id, x) ==
    LET o == update_event_try(event_id, x) IN
    IF o.exc = NoExc THEN o.val
    ELSE EventResponse(FALSE, None, NoData, str(o.exc), NoStatus, "Oshibka seti")

\* A 204 branch that parses the body, as the success branches of get_event and
\* update_event do (C18 must tell it from delete_event_ok).
delete_event_ok_parsing(x) ==
    IF json_raises(x.body) THEN Raise("JSONDecodeError", TRUE)
    ELSE Return(EventResponse(TRUE, None, x.body, "Sobytie udaleno uspeshno",
                              x.status, None), TRUE)

\* delete_event, status 204: the body is not read.
delete_event_ok(x) ==
    Return(EventResponse(TRUE, None, NoData, "Sobytie udaleno uspeshno",
                         x.status, None), FALSE)

\* delete_event, status 404.
delete_event_not_found(x) ==
    Return(EventResponse(FALSE, None, NoData, None, x.status, "Sobytie ne naydeno"),
           FALSE)

\* delete_event, any other status.
delete_event_err(x) ==
    LET e == error_data_raises(x.body)
        d == error_data(x.body)
    IN  IF e # NoExc THEN Raise(e, TRUE)
        ELSE Return(EventResponse(FALSE, None, NoData, get(d, "message", None),
                                  x.status,
                                  get(d, "error", "Oshibka udaleniya sobytiya")),
                    TRUE)

\* The try block of delete_event.
delete_event_try(event_id, x) ==
    IF x.exc # NoExc THEN Raise(x.exc, FALSE)
    ELSE IF x.status = 204 THEN delete_event_ok(x)
    ELSE IF x.status = 404 THEN delete_event_not_found(x)
    ELSE delete_event_err(x)

\* delete_event: except Exception.
delete_event(event_id, x) ==
    LET o == delete_event_try(event_id, x) IN
    IF o.exc = NoExc THEN o.val
    ELSE EventResponse(FALSE, None, NoData, str(o.exc), NoStatus, "Oshibka seti")

\* A success branch that also copies the body's error key (C6 must tell it from
\* get_events_ok).
get_events_ok_with_error(x) ==
    LET e == data_get_raises(x.body) IN
    IF e # NoExc THEN Raise(e, TRUE)
    ELSE Return(EventsListResponse(TRUE,
                                   get_tagged(x.body, "events", PyList(<<>>)),
                                   get_tagged(x.body, "total", PyInt(0)),
                                   "Spisok sobytiy poluchen uspeshno", x.status,
                                   get(x.body, "error", None)), TRUE)

\* get_events, status 200: data = response.json(); events = data.get('events', []),
\* total = data.get('total', 0).
get_events_ok(x) ==
    LET e == data_get_raises(x.body) IN
    IF e # NoExc THEN Raise(e, TRUE)
    ELSE Return(EventsListResponse(TRUE,
                                   get_tagged(x.body, "events", PyList(<<>>)),
                                   get_tagged(x.body, "total", PyInt(0)),
                                   "Spisok sobytiy poluchen uspeshno", x.status,
                                   None), TRUE)

\* get_events, any other status: events and total keep their defaults (None, 0).
get_events_err(x) ==
    LET e == error_data_raises(x.body)
        d == error_data(x.body)
    IN  IF e # NoExc THEN Raise(e, TRUE)
        ELSE Return(EventsListResponse(FALSE, NoneList, PyInt(0),
                                       get(d, "message", None), x.status,
                                       get(d, "error",
                                           "Oshibka polucheniya spiska sobytiy")),
                    TRUE)

\* The try block of get_events.
get_events_try(x) ==
    IF x.exc # NoExc THEN Raise(x.exc, FALSE)
    ELSE IF x.status = 200 THEN get_events_ok(x)
    ELSE get_events_err(x)

\* get_events: except Exception.
get_events(x) ==
    LET o == get_events_try(x) IN
    IF o.exc = NoExc THEN o.val
    ELSE EventsListResponse(FALSE, NoneList, PyInt(0), str(o.exc), NoStatus,
                            "Oshibka seti")

-----------------------------------------------------------------------------
(* The descriptors (config/test_data.py) and the requests the operations send *)

\* UserData(email, password, first_name, last_name, phone)
UserData(email, password, first_name, last_name, phone) ==
    [cls |-> "UserData", email |-> email, password |-> password,
     first_name |-> first_name, last_name |-> last_name, phone |-> phone]

\* EventData(...); start_date and end_date are datetimes, here points on a time line.
EventData(title, description, start_date, end_date, location, reminder_minutes, is_recurring, recurrence_pattern) ==
    [cls |-> "EventData", title |-> title, description |-> description,
     start_date |-> start_date, end_date |-> end_date, location |-> location,
     reminder_minutes |-> reminder_minutes, is_recurring |-> is_recurring,
     recurrence_pattern |-> recurrence_pattern]

\* No descriptor is passed.
NoDescriptor == [cls |-> "none"]

\* TestData.VALID_USER, TestData.INVALID_USER
VALID_USER ==
    UserData("test_aviasales@temp-mail.org", "SecurePass123!", "Ivan", "Testov",
             "+79991234567")
INVALID_USER ==
    UserData("invalid@example.com", "wrongpassword", "Nevernyy", "Polzovatel",
             "+79998887766")

\* TestData.SIMPLE_EVENT, TestData.RECURRING_EVENT (dates as days from now)
SIMPLE_EVENT ==
    EventData("Testovoe sobytie", "Opisanie", 3, 4, "Moskva", 30, FALSE, None)
RECURRING_EVENT ==
    EventData("Ezhenedelnaya vstrecha", "Planerka", 1, 2, "Onlayn", 15, TRUE,
              "WEEKLY")

\* bool(s) of an Optional[str]: None and "" are falsy.
truthy(s) == s # None /\ s # ""

\* datetime.isoformat()
isoformat(dt) == "iso:" \o ToString(dt)

\* EventsAPI._format_datetime
_format_datetime(dt) == isoformat(dt)

\* EventsAPI._event_to_payload: the dates formatted, recurrence_pattern only when
\* it is set.
_event_to_payload(event_data) ==
    [title |-> event_data.title,
     description |-> event_data.description,
     start_date |-> _format_datetime(event_data.start_date),
     end_date |-> _format_datetime(event_data.end_date),
     location |-> event_data.location,
     reminder_minutes |-> event_data.reminder_minutes,
     is_recurring |-> event_data.is_recurring,
     recurrence_pattern |-> IF truthy(event_data.recurrence_pattern)
                            THEN event_data.recurrence_pattern ELSE Absent]

\* An _event_to_payload that normalises the descriptor in place before reading it:
\* event_data.recurrence_pattern = event_data.recurrence_pattern or "NONE" (C19
\* must tell it from EventData_after_payload).
EventData_after_payload_normalised(event_data) ==
    [event_data EXCEPT !.recurrence_pattern =
        IF truthy(event_data.recurrence_pattern)
        THEN event_data.recurrence_pattern ELSE "NONE"]

\* The EventData object after _event_to_payload (and the rest of create_event /
\* update_event) ran on it: its attributes are read, none is assigned.
EventData_after_payload(event_data) == event_data

\* The UserData object after register / login_with_user_data ran on it: its
\* attributes are read, none is assigned.
UserData_after_call(user_data) == user_data

\* The query parameters of a request; no parameter at all:
NoParams ==
    [limit |-> AbsentInt, offset |-> AbsentInt, search |-> Absent,
     start_date |-> Absent, end_date |-> Absent]

\* No JSON body.
NoJson == [cls |-> "none"]

\* An HTTP request as the session sends it: the Authorization header is the one
\* header the operations differ in.
Request(method, path, authorization, params, body) ==
    [method |-> method, path |-> path, authorization |-> authorization,
     params |-> params, json |-> body]

\* No request was sent.
NoRequest == Request("none", "", Absent, NoParams, NoJson)

\* f'Bearer {token}'
Bearer(token) == "Bearer " \o token

\* requests merges the headers of the session with those of the call; the call's
\* win.
merge_setting(request_header, session_header) ==
    IF request_header # Absent THEN request_header ELSE session_header

\* A set_auth_token that keeps a token that is already set:
\* session.headers.setdefault (C13 must tell it from set_auth_token).
set_auth_token_setdefault(authorization, token) ==
    IF authorization # Absent THEN authorization ELSE Bearer(token)

\* EventsAPI.set_auth_token: session.headers.update({'Authorization': ...}); the
\* Authorization header of the session after the call.
set_auth_token(authorization, token) == Bearer(token)

\* EventsAPI.__init__: the Authorization header of the new session.
EventsAPI_init(auth_token) ==
    IF truthy(auth_token) THEN set_auth_token(Absent, auth_token) ELSE Absent

\* AuthAPI.__init__: User-Agent, Accept and Content-Type, no Authorization.
AuthAPI_init == [authorization |-> Absent, sent |-> {}]

\* A session that keeps the headers of a request as its own defaults:
\* session.headers.update(headers) (C27 must tell it from session_after_request).
session_after_request_update(session, request_header) ==
    [authorization |-> merge_setting(request_header, session.authorization),
     sent |-> IF request_header = Absent THEN session.sent
              ELSE session.sent \cup {request_header}]

\* The session after session.post(url, headers=headers, ...): the headers of the
\* call go into that request only, the defaults of the session stay; sent
\* remembers the Authorization headers passed with calls.
session_after_request(session, request_header) ==
    [authorization |-> session.authorization,
     sent |-> IF request_header = Absent THEN session.sent
              ELSE session.sent \cup {request_header}]

\* The requests of AuthAPI; session is the Authorization header of its session.
login_request(session, email, password) ==
    Request("POST", "/api/v1/auth/login",
            merge_setting(Absent, session.authorization), NoParams,
            [email |-> email, password |-> password])

logout_request(session, token) ==
    Request("POST", "/api/v1/auth/logout",
            merge_setting(Bearer(token), session.authorization),
            NoParams, NoJson)

validate_token_request(session, token) ==
    Request("GET", "/api/v1/auth/validate",
            merge_setting(Bearer(token), session.authorization),
            NoParams, NoJson)

refresh_token_request(session, token) ==
    Request("POST", "/api/v1/auth/refresh",
            merge_setting(Absent, session.authorization),
            NoParams, [refresh_token |-> token])

register_request(session, user_data) ==
    Request("POST", "/api/v1/auth/register",
            merge_setting(Absent, session.authorization),
            NoParams,
            [email |-> user_data.email, password |-> user_data.password,
             first_name |-> user_data.first_name,
             last_name |-> user_data.last_name, phone |-> user_data.phone])

get_user_info_request(session, token) ==
    Request("GET", "/api/v1/auth/user",
            merge_setting(Bearer(token), session.authorization), NoParams, NoJson)

\* A parsed JSON body as get_user_info returns it; {} is the object without keys.
Json(body) == [cls |-> "json", value |-> body]

\* The try block of get_user_info: status 200 returns response.json(), any other
\* status {}.
get_user_info_try(x) ==
    IF x.exc # NoExc THEN Raise(x.exc, FALSE)
    ELSE IF x.status = 200
         THEN IF json_raises(x.body) THEN Raise("JSONDecodeError", TRUE)
              ELSE Return(Json(x.body), TRUE)
    ELSE Return(Json(BlankBody("object")), FALSE)

\* get_user_info: except Exception returns {}.
get_user_info(x) ==
    LET o == get_user_info_try(x) IN
    IF o.exc = NoExc THEN o.val ELSE Json(BlankBody("object"))

\* The requests of EventsAPI; session is the Authorization header of its session.
create_event_request(session, event_data) ==
    Request("POST", "/api/v1/events", merge_setting(Absent, session), NoParams,
            _event_to_payload(event_data))

get_event_request(session, event_id) ==
    Request("GET", "/api/v1/events/" \o event_id, merge_setting(Absent, session),
            NoParams, NoJson)

update_event_request(session, event_id, event_data) ==
    Request("PUT", "/api/v1/events/" \o event_id, merge_setting(Absent, session),
            NoParams, _event_to_payload(event_data))

delete_event_request(session, event_id) ==
    Request("DELETE", "/api/v1/events/" \o event_id,
            merge_setting(Absent, session), NoParams, NoJson)

\* The arguments of get_events as the caller passes them: limit and offset are
\* AbsentInt when omitted; search is None, "" or a text; the dates are NoneInt or a
\* datetime.
ListArgs(limit, offset, search, start_date, end_date) ==
    [limit |-> limit, offset |-> offset, search |-> search,
     start_date |-> start_date, end_date |-> end_date]

\* get_events(): every argument omitted.
NoListArgs == ListArgs(AbsentInt, AbsentInt, None, NoneInt, NoneInt)

\* A default parameter value: def get_events(self, limit: int = 50, offset: int = 0.
default(arg, value) == IF arg.t = "absent" THEN PyInt(value) ELSE arg

\* A get_events that sends limit and offset only when the caller passed them (C15
\* must tell it from get_events_params).
get_events_params_only_given(a) ==
    [limit |-> a.limit,
     offset |-> a.offset,
     search |-> IF truthy(a.search) THEN a.search ELSE Absent,
     start_date |-> IF a.start_date.t # "null"
                    THEN _format_datetime(a.start_date.v) ELSE Absent,
     end_date |-> IF a.end_date.t # "null"
                  THEN _format_datetime(a.end_date.v) ELSE Absent]

\* get_events: params = {'limit': limit, 'offset': offset}; if search: ...;
\* if start_date: ...; if end_date: ...
get_events_params(a) ==
    [limit |-> default(a.limit, 50),
     offset |-> default(a.offset, 0),
     search |-> IF truthy(a.search) THEN a.search ELSE Absent,
     start_date |-> IF a.start_date.t # "null"
                    THEN _format_datetime(a.start_date.v) ELSE Absent,
     end_date |-> IF a.end_date.t # "null"
                  THEN _format_datetime(a.end_date.v) ELSE Absent]

get_events_request(session, a) ==
    Request("GET", "/api/v1/events", merge_setting(Absent, session),
            get_events_params(a), NoJson)

\* search_events_by_title(title): get_events(search=title)
search_events_by_title_args(title) ==
    ListArgs(AbsentInt, AbsentInt, title, NoneInt, NoneInt)

-----------------------------------------------------------------------------
(* The state machine: a test calls the client operations one after another; the *)
(* server and the transport answer each request in any way they can.            *)

\* The number of requests one call of an operation issues on exchange x: each try
\* block calls the session once and no loop surrounds it.
requests_sent(x) == 1

\* The caller holds no record: none was returned yet, or the last one was dropped.
Idle == call.op = "none"

\* Calls are synchronous: the caller makes the next one after it is done with the
\* last one.
CanCall == Idle /\ nreq < MaxRequests

\* A call of operation op with its arguments.
Call(op, event_id, arg, args, title) ==
    [op |-> op, event_id |-> event_id, descriptor |-> arg, args |-> args,
     title |-> title]

\* No call is under way.
NoCall == Call("none", None, NoDescriptor, NoListArgs, None)

\* No exchange took place.
NoExchange == [exc |-> NoExc, status |-> NoStatus, body |-> BlankBody("empty")]

\* What the tests pass to the operations, and what comes back.  X: the exchanges;
\* TX: the exchanges of the title look-ups; Users, Events: the descriptors;
\* Args: the arguments of get_events; Titles: the titles looked up; AuthTokens: the
\* tokens passed to logout / validate_token / refresh_token; CtorTokens: the
\* auth_token EventsAPI is constructed with.
ReplyInputs ==
    [X |-> Exchanges, TX |-> {}, Users |-> {VALID_USER}, Events |-> {SIMPLE_EVENT},
     Args |-> {NoListArgs}, Titles |-> {}, AuthTokens |-> {"t1"},
     CtorTokens |-> {None}]

\* The state of cleanup_events: pc is its position ("unused" when the test does
\* not request it), server the ids of the events on the server, event_ids the list
\* it collected, next the index of the event it deletes next, deleted the ids it
\* called delete_event for, at_end the ids on the server when the test ended.
Fixture(pc, server, event_ids, next, deleted, at_end) ==
    [pc |-> pc, server |-> server, event_ids |-> event_ids, next |-> next,
     deleted |-> deleted, at_end |-> at_end]

\* The test does not request cleanup_events.
NoFixture == Fixture("unused", {}, <<>>, 1, {}, {})

\* The page: items is the event list; shown the locators a lookup finds (and
\* sees) when the page object looks them up; recurring whether the recurring
\* checkbox of the form is selected; reminder the value selected in the reminder
\* select; error the text of the error message.
Dom(items, shown, recurring, reminder, error) ==
    [items |-> items, shown |-> shown, recurring |-> recurring,
     reminder |-> reminder, error |-> error]

\* A call of a page-object method: its arguments, r what it gave its caller, log
\* the clicks and inputs it made in order, before the page as the call found it.
UiCall(op, title, data, flag, locator, r, log, before) ==
    [op |-> op, title |-> title, data |-> data, flag |-> flag,
     locator |-> locator, r |-> r, log |-> log, before |-> before]

\* The page before any call: dom the page, n the calls made on it so far.
Page(dom, n, last) == [dom |-> dom, n |-> n, call |-> last]

BlankDom == Dom(<<>>, {}, FALSE, "15", "")
NoUiCall ==
    UiCall("none", <<>>, NoDescriptor, FALSE, "none", [cls |-> "NoCall"], <<>>,
           BlankDom)
NoPage == Page(BlankDom, 0, NoUiCall)

\* The driver fixture: pc its position; browser_type and headless_mode its
\* arguments; fails the step of the set-up the browser fails at; options the
\* arguments given to the browser; driver the local variable; quits the quit()
\* calls made; raised the exception the fixture let out; test how the test ended.
DriverFixture(pc, browser_type, headless_mode, fails, options, driver, quits, raised, test) ==
    [pc |-> pc, browser_type |-> browser_type, headless_mode |-> headless_mode,
     fails |-> fails, options |-> options, driver |-> driver, quits |-> quits,
     raised |-> raised, test |-> test]

\* driver = None, and the WebDriver of a browser.
NoDriver == [made |-> FALSE, browser |-> <<>>]
WebDriver(name) == [made |-> TRUE, browser |-> name]

NoDriverFixture ==
    DriverFixture("unused", <<>>, FALSE, "nothing", {}, NoDriver, 0, NoExc,
                  "none")

\* The state after AuthAPI() and EventsAPI(auth_token): no call made yet.
ClientInit(I) ==
    /\ jsonErrorIsRequestException \in BOOLEAN
    /\ call = NoCall
    /\ exch = NoExchange
    /\ result = [cls |-> "NoCall"]
    /\ bodyRead = FALSE
    /\ nreq = 0
    /\ req = NoRequest
    /\ descriptor = NoDescriptor
    /\ ctor_token \in I.CtorTokens
    /\ events_session = EventsAPI_init(ctor_token)
    /\ token_set = Absent
    /\ auth_session = AuthAPI_init

InitWith(I) ==
    /\ ClientInit(I)
    /\ fixture = NoFixture
    /\ page = NoPage
    /\ driver_fixture = NoDriverFixture

Init == InitWith(ReplyInputs)

\* One call of an operation: the request q is issued, the exchange x comes back,
\* the operation returns r (or raises) having read the body or not, and leaves the
\* descriptor it was given as d.
Returned(c, q, x, r, read, d) ==
    /\ call' = c
    /\ req' = q
    /\ exch' = x
    /\ result' = r
    /\ bodyRead' = read
    /\ descriptor' = d
    /\ nreq' = nreq + requests_sent(x)
    /\ UNCHANGED <<jsonErrorIsRequestException, events_session, ctor_token, token_set,
                   otherVars>>

\* One call of an operation of EventsAPI: the session of AuthAPI is not involved.
Returns(c, q, x, r, read, d) ==
    /\ Returned(c, q, x, r, read, d)
    /\ UNCHANGED auth_session

\* One call of an operation of AuthAPI, which passes request_header with it.
ReturnsAuth(c, q, x, r, read, d, request_header) ==
    /\ Returned(c, q, x, r, read, d)
    /\ auth_session' = session_after_request(auth_session, request_header)

CallLogin(I) ==
    /\ CanCall
    /\ \E x \in I.X, u \in I.Users :
        ReturnsAuth(Call("login", None, NoDescriptor, NoListArgs, None),
                    login_request(auth_session, u.email, u.password),
                    x, login(x), login_try(x).read, NoDescriptor, Absent)

CallLogout(I) ==
    /\ CanCall
    /\ \E x \in I.X, t \in I.AuthTokens :
        ReturnsAuth(Call("logout", None, NoDescriptor, NoListArgs, None),
                    logout_request(auth_session, t),
                    x, logout(x), logout_try(x).read, NoDescriptor, Bearer(t))

CallValidateToken(I) ==
    /\ CanCall
    /\ \E x \in I.X, t \in I.AuthTokens :
        ReturnsAuth(Call("validate_token", None, NoDescriptor, NoListArgs, None),
                    validate_token_request(auth_session, t),
                    x, validate_token(x), validate_token_try(x).read, NoDescriptor,
                    Bearer(t))

CallRefreshToken(I) ==
    /\ CanCall
    /\ \E x \in I.X, t \in I.AuthTokens :
        ReturnsAuth(Call("refresh_token", None, NoDescriptor, NoListArgs, None),
                    refresh_token_request(auth_session, t),
                    x, refresh_token(x), refresh_token_try(x).read, NoDescriptor,
                    Absent)

CallRegister(I) ==
    /\ CanCall
    /\ \E x \in I.X, u \in I.Users :
        ReturnsAuth(Call("register", None, u, NoListArgs, None),
                    register_request(auth_session, u),
                    x, register(x), register_try(x).read, UserData_after_call(u),
                    Absent)

CallCreateEvent(I) ==
    /\ CanCall
    /\ \E x \in I.X, e \in I.Events :
        Returns(Call("create_event", None, e, NoListArgs, None),
                create_event_request(events_session, e),
                x, create_event(x), create_event_try(x).read,
                EventData_after_payload(e))

CallGetEvent(I) ==
    /\ CanCall
    /\ \E x \in I.X, id \in EventIds :
        Returns(Call("get_event", id, NoDescriptor, NoListArgs, None),
                get_event_request(events_session, id),
                x, get_event(id, x), get_event_try(id, x).read, NoDescriptor)

CallUpdateEvent(I) ==
    /\ CanCall
    /\ \E x \in I.X, id \in EventIds, e \in I.Events :
        Returns(Call("update_event", id, e, NoListArgs, None),
                update_event_request(events_session, id, e),
                x, update_event(id, x), update_event_try(id, x).read,
                EventData_after_payload(e))

CallDeleteEvent(I) ==
    /\ CanCall
    /\ \E x \in I.X, id \in EventIds :
        Returns(Call("delete_event", id, NoDescriptor, NoListArgs, None),
                delete_event_request(events_session, id),
                x, delete_event(id, x), delete_event_try(id, x).read, NoDescriptor)

CallGetEvents(I) ==
    /\ CanCall
    /\ \E x \in I.X, a \in I.Args :
        Returns(Call("get_events", None, NoDescriptor, a, None),
                get_events_request(events_session, a),
                x, get_events(x), get_events_try(x).read, NoDescriptor)

\* The caller is done with the record it was given (the fixtures read success,
\* token, event_id or error and drop the record) and goes on.
CallerContinues ==
    /\ ~Idle
    /\ call' = NoCall
    /\ exch' = NoExchange
    /\ result' = [cls |-> "NoCall"]
    /\ bodyRead' = FALSE
    /\ req' = NoRequest
    /\ descriptor' = NoDescriptor
    /\ UNCHANGED <<jsonErrorIsRequestException, nreq, events_session, ctor_token,
                   token_set, auth_session, otherVars>>

Next ==
    \/ CallLogin(ReplyInputs)
    \/ CallLogout(ReplyInputs)
    \/ CallValidateToken(ReplyInputs)
    \/ CallRefreshToken(ReplyInputs)
    \/ CallRegister(ReplyInputs)
    \/ CallCreateEvent(ReplyInputs)
    \/ CallGetEvent(ReplyInputs)
    \/ CallUpdateEvent(ReplyInputs)
    \/ CallDeleteEvent(ReplyInputs)
    \/ CallGetEvents(ReplyInputs)
    \/ CallerContinues

Spec == Init /\ [][Next]_vars

-----------------------------------------------------------------------------
(* The same clients with their arguments and their session varied, on fewer    *)
(* replies: what each operation sends, and what the title look-ups return.     *)

\* The replies of the second specification: a transport failure, or a status with
\* an empty, malformed, non-object or error body.
RequestExchanges ==
    { [exc |-> e, status |-> NoStatus, body |-> BlankBody("empty")] :
        e \in {"Timeout", "ConnectionError"} }
    \cup { [exc |-> NoExc, status |-> s, body |-> b] :
            s \in {200, 201, 204, 404, 500},
            b \in {BlankBody("empty"), BlankBody("malformed"),
                   BlankBody("nonobject"),
                   [BlankBody("object") EXCEPT !.error = "bad credentials"]} }

\* The events a list reply holds: two with the same title, one with another, one
\* with an empty title and one without a title.
TitleEvents ==
    { [id |-> "e1", title |-> "t1"], [id |-> "e2", title |-> "t1"],
      [id |-> "e3", title |-> "t2"], [id |-> "e4", title |-> ""],
      [id |-> "e5", title |-> Absent] }

\* The longest list of events a reply holds.
MaxEvents == 2

\* The lists of at most MaxEvents events.
EventLists == UNION { [1..n -> TitleEvents] : n \in 0..MaxEvents }

\* The replies to the list request of a title look-up: 200 with a list of events,
\* 200 without the key, and failures.
TitleExchanges ==
    { [exc |-> NoExc, status |-> 200,
       body |-> [BlankBody("object") EXCEPT !.events = PyList(l),
                                            !.total = PyInt(Len(l))]] :
        l \in EventLists }
    \cup { [exc |-> NoExc, status |-> 200, body |-> BlankBody("object")],
           [exc |-> NoExc, status |-> 200, body |-> BlankBody("malformed")],
           [exc |-> NoExc, status |-> 500, body |-> BlankBody("empty")],
           [exc |-> "Timeout", status |-> NoStatus, body |-> BlankBody("empty")] }

\* The titles looked up (TestData.EMPTY_TITLE among them).
Titles == {"", "t1", "t2", "t3"}

\* The tokens of set_auth_token.
Tokens == {"t1", "t2"}

\* The arguments get_events is called with: each one omitted or given.
GetEventsArgs ==
    { ListArgs(l, o, q, sd, ed) :
        l \in {AbsentInt, PyInt(10)}, o \in {AbsentInt, PyInt(5)},
        q \in {None, "", "t1"}, sd \in {NoneInt, PyInt(1)},
        ed \in {NoneInt, PyInt(8)} }

RequestInputs ==
    [X |-> RequestExchanges, TX |-> TitleExchanges,
     Users |-> {VALID_USER, INVALID_USER},
     Events |-> {SIMPLE_EVENT, RECURRING_EVENT},
     Args |-> GetEventsArgs, Titles |-> Titles, AuthTokens |-> {"t1"},
     CtorTokens |-> {None, "", "t1"}]

\* if response.success and response.events:
has_events(response) ==
    response.success /\ response.events.t = "list" /\ response.events.v # <<>>

\* A scan that keeps the last event whose title matches (C16 must tell it from
\* first_with_title).
RECURSIVE last_with_title(_, _)
last_with_title(events, title) ==
    IF events = <<>> THEN [cls |-> "NoneType"]
    ELSE IF get(events[Len(events)], "title", None) = title
         THEN [cls |-> "dict", value |-> events[Len(events)]]
         ELSE last_with_title(SubSeq(events, 1, Len(events) - 1), title)

\* for event in response.events: if event.get('title') == title: return event;
\* after the loop: return None
RECURSIVE first_with_title(_, _)
first_with_title(events, title) ==
    IF events = <<>> THEN [cls |-> "NoneType"]
    ELSE IF get(Head(events), "title", None) = title
         THEN [cls |-> "dict", value |-> Head(events)]
         ELSE first_with_title(Tail(events), title)

\* EventsAPI.get_event_by_title, given the reply x to its list request.
get_event_by_title(title, x) ==
    LET response == get_events(x) IN
    IF has_events(response) THEN first_with_title(response.events.v, title)
    ELSE [cls |-> "NoneType"]

\* A scan that is content with any event (C26 must tell it from
\* exists_with_title).
any_event(events, title) == events # <<>>

\* event_exists: for event in response.events: if event.get('title') == title:
\* return True; after the loop: return False
RECURSIVE exists_with_title(_, _)
exists_with_title(events, title) ==
    IF events = <<>> THEN FALSE
    ELSE IF get(Head(events), "title", None) = title THEN TRUE
    ELSE exists_with_title(Tail(events), title)

\* EventsAPI.event_exists, given the reply x to its list request.
event_exists(title, x) ==
    LET response == get_events(x) IN
    [cls |-> "bool",
     value |-> IF has_events(response)
               THEN exists_with_title(response.events.v, title) ELSE FALSE]

\* AuthAPI.login_with_user_data: login(user_data.email, user_data.password).
login_with_user_data(x) == login(x)

InitRequests == InitWith(RequestInputs)

\* The test sets the token of the events client between two calls.
SetAuthToken ==
    /\ Idle
    /\ \E t \in Tokens :
        /\ t # token_set
        /\ events_session' = set_auth_token(events_session, t)
        /\ token_set' = t
    /\ UNCHANGED <<jsonErrorIsRequestException, call, exch, result, bodyRead, nreq,
                   req, descriptor, ctor_token, auth_session, otherVars>>

CallLoginWithUserData(I) ==
    /\ CanCall
    /\ \E x \in I.X, u \in I.Users :
        ReturnsAuth(Call("login_with_user_data", None, u, NoListArgs, None),
                    login_request(auth_session, u.email, u.password),
                    x, login_with_user_data(x), login_try(x).read,
                    UserData_after_call(u), Absent)

CallGetUserInfo(I) ==
    /\ CanCall
    /\ \E x \in I.X, t \in I.AuthTokens :
        ReturnsAuth(Call("get_user_info", None, NoDescriptor, NoListArgs, None),
                    get_user_info_request(auth_session, t),
                    x, get_user_info(x), get_user_info_try(x).read, NoDescriptor,
                    Bearer(t))

CallEventExists(I) ==
    /\ CanCall
    /\ \E x \in I.TX, title \in I.Titles :
        Returns(Call("event_exists", None, NoDescriptor, NoListArgs, title),
                get_events_request(events_session,
                                   search_events_by_title_args(title)),
                x, event_exists(title, x), get_events_try(x).read, NoDescriptor)

CallGetEventByTitle(I) ==
    /\ CanCall
    /\ \E x \in I.TX, title \in I.Titles :
        Returns(Call("get_event_by_title", None, NoDescriptor, NoListArgs, title),
                get_events_request(events_session,
                                   search_events_by_title_args(title)),
                x, get_event_by_title(title, x), get_events_try(x).read,
                NoDescriptor)

\* The names config/settings.py binds at module level: its imports, the class
\* Settings and the instance settings.
settings_names ==
    {"os", "Path", "Optional", "BaseSettings", "Field", "Settings", "settings"}

\* The global names of api/client.py once its imports and its class statement ran.
client_names == {"requests", "API_BASE_URL", "API_TOKEN", "APIClient"}

\* from config.settings import API_BASE_URL: ImportError for a name the module
\* does not bind.
import_client ==
    IF "API_BASE_URL" \in settings_names THEN NoExc ELSE "ImportError"

\* config.secrets.API_TOKEN: os.getenv("API_TOKEN"), the value of the environment.
API_TOKEN == "api-token"

\* APIClient.base_url: API_BASE_URL
APIClient_base_url == "API_BASE_URL"

\* The raw requests.Response of exchange x.
Response(x) == [cls |-> "Response", status_code |-> x.status, body |-> x.body]

\* APIClient.get / APIClient.post: url = base_url + endpoint, then
\* self.session.get(url, params=params, timeout=TIMEOUT); the arguments are
\* evaluated before the call, and TIMEOUT is looked up among the globals of the
\* module.  sent: the requests issued; q: the request; r: what the caller gets.
APIClient_send(method, endpoint, x) ==
    IF import_client # NoExc
    THEN [sent |-> 0, q |-> NoRequest, x |-> NoExchange,
          r |-> Propagate(import_client)]
    ELSE IF "TIMEOUT" \notin client_names
    THEN [sent |-> 0, q |-> NoRequest, x |-> NoExchange,
          r |-> Propagate("NameError")]
    ELSE [sent |-> 1,
          q |-> Request(method, APIClient_base_url \o endpoint, Bearer(API_TOKEN),
                        NoParams, NoJson),
          x |-> x,
          r |-> IF x.exc # NoExc THEN Propagate(x.exc) ELSE Response(x)]

\* One call of APIClient.get or APIClient.post, as tests/test_api.py makes it.
APIClientCall(op, method, I) ==
    \E x \in I.X :
        LET o == APIClient_send(method, "/users", x) IN
        /\ call' = Call(op, None, NoDescriptor, NoListArgs, None)
        /\ req' = o.q
        /\ exch' = o.x
        /\ result' = o.r
        /\ bodyRead' = FALSE
        /\ descriptor' = NoDescriptor
        /\ nreq' = nreq + o.sent
        /\ UNCHANGED <<jsonErrorIsRequestException, events_session, ctor_token,
                       token_set, auth_session, otherVars>>

CallAPIClientGet(I) ==
    /\ CanCall
    /\ APIClientCall("APIClient.get", "GET", I)

CallAPIClientPost(I) ==
    /\ CanCall
    /\ APIClientCall("APIClient.post", "POST", I)

\* The global names of api/events_api.py once its imports and its class
\* statements ran.
events_api_names ==
    {"allure", "logging", "requests", "Optional", "Dict", "Any", "List",
     "dataclass", "datetime", "RequestException", "Timeout", "settings",
     "EventData", "EventResponse", "EventsListResponse", "EventsAPI"}

\* datetime.now().replace(hour=23, minute=59, second=59), on a clock that counts
\* hours: the last hour of the day of now.
end_of_day(now) == (now \div 24) * 24 + 23

\* EventsAPI.get_upcoming_events, called at the hour now: start_date =
\* datetime.now(); end_date = datetime.now().replace(...) + timedelta(days=days),
\* where timedelta is looked up among the globals of the module; then
\* get_events(start_date=start_date, end_date=end_date).  sent: the requests
\* issued; args: what get_events is called with; r: what the caller gets.
get_upcoming_events(days, now, session, x) ==
    IF "timedelta" \notin events_api_names
    THEN [sent |-> 0, args |-> NoListArgs, q |-> NoRequest, x |-> NoExchange,
          read |-> FALSE, r |-> Propagate("NameError")]
    ELSE LET a == ListArgs(AbsentInt, AbsentInt, None, PyInt(now),
                           PyInt(end_of_day(now) + 24 * days))
         IN  [sent |-> requests_sent(x), args |-> a,
              q |-> get_events_request(session, a), x |-> x,
              read |-> get_events_try(x).read, r |-> get_events(x)]

\* The hours at which the test calls, and the days it asks for.
Hours == {0, 23, 30}
Days == {0, 7}

CallGetUpcomingEvents(I) ==
    /\ CanCall
    /\ \E x \in I.X, days \in Days, now \in Hours :
        LET o == get_upcoming_events(days, now, events_session, x) IN
        /\ call' = Call("get_upcoming_events", None, NoDescriptor, o.args, None)
        /\ req' = o.q
        /\ exch' = o.x
        /\ result' = o.r
        /\ bodyRead' = o.read
        /\ descriptor' = NoDescriptor
        /\ nreq' = nreq + o.sent
        /\ UNCHANGED <<jsonErrorIsRequestException, events_session, ctor_token,
                       token_set, auth_session, otherVars>>

NextRequests ==
    \/ CallLogin(RequestInputs)
    \/ CallLoginWithUserData(RequestInputs)
    \/ CallGetUserInfo(RequestInputs)
    \/ CallLogout(RequestInputs)
    \/ CallValidateToken(RequestInputs)
    \/ CallRefreshToken(RequestInputs)
    \/ CallRegister(RequestInputs)
    \/ CallCreateEvent(RequestInputs)
    \/ CallGetEvent(RequestInputs)
    \/ CallUpdateEvent(RequestInputs)
    \/ CallDeleteEvent(RequestInputs)
    \/ CallGetEvents(RequestInputs)
    \/ CallEventExists(RequestInputs)
    \/ CallGetEventByTitle(RequestInputs)
    \/ CallGetUpcomingEvents(RequestInputs)
    \/ CallAPIClientGet(RequestInputs)
    \/ CallAPIClientPost(RequestInputs)
    \/ SetAuthToken
    \/ CallerContinues

SpecRequests == InitRequests /\ [][NextRequests]_vars

-----------------------------------------------------------------------------
(* The cleanup_events fixture (tests/conftest.py) around a test that creates   *)
(* events with create_test_event, against a server that keeps its events.      *)

\* The ids of the events on the server before the test, and the ids the server
\* gives to the events the test creates.
OldEventIds == {"e1", "e2"}
NewEventIds == {"e3", "e4"}

\* The order in which the server lists its events.
ListingOrder == <<"e1", "e2", "e3", "e4">>

\* The events with the ids S as the server lists them.
ListedEvents(S) ==
    LET ids == SelectSeq(ListingOrder, LAMBDA e : e \in S) IN
    [i \in 1..Len(ids) |-> [id |-> ids[i], title |-> "t1"]]

\* A transport failure and a server error, which any request may end in.
FailedExchanges ==
    { [exc |-> "Timeout", status |-> NoStatus, body |-> BlankBody("empty")],
      [exc |-> NoExc, status |-> 500, body |-> BlankBody("empty")] }

\* The replies to the list request when the server holds the events S.
ListReplies(S) ==
    { [exc |-> NoExc, status |-> 200,
       body |-> [BlankBody("object") EXCEPT !.events = PyList(ListedEvents(S)),
                                            !.total = PyInt(Cardinality(S))]] }
    \cup FailedExchanges

\* The replies to the request that creates the event id.
CreateReplies(id) ==
    { [exc |-> NoExc, status |-> 201,
       body |-> [BlankBody("object") EXCEPT !.id = id]] }
    \cup FailedExchanges

\* The replies to a delete request.
DeleteReplies ==
    { [exc |-> NoExc, status |-> 204, body |-> BlankBody("empty")],
      [exc |-> NoExc, status |-> 404, body |-> BlankBody("empty")] }
    \cup FailedExchanges

\* cleanup_events before the yield: response = events_api.get_events(); if
\* response.success: for event in response.events: event_ids.append(event.get('id'))
collect_event_ids(response) ==
    IF response.success
    THEN [i \in 1..Len(response.events.v) |->
             get(response.events.v[i], "id", None)]
    ELSE <<>>

InitCleanup ==
    /\ ClientInit(ReplyInputs)
    /\ \E S \in SUBSET OldEventIds :
        fixture = Fixture("setup", S, <<>>, 1, {}, {})
    /\ page = NoPage
    /\ driver_fixture = NoDriverFixture

\* cleanup_events up to its yield.
FixtureSetup ==
    /\ fixture.pc = "setup"
    /\ \E x \in ListReplies(fixture.server) :
        fixture' = [fixture EXCEPT !.pc = "test",
                                   !.event_ids = collect_event_ids(get_events(x))]
    /\ UNCHANGED <<clientVars, page, driver_fixture>>

\* The test calls create_test_event(): events_api.create_event(event_data); the
\* server holds the event when it answered 201.
TestCreatesEvent ==
    /\ fixture.pc = "test"
    /\ \E id \in NewEventIds \ fixture.server :
        \E x \in CreateReplies(id) :
            fixture' = [fixture EXCEPT !.server =
                           IF x.exc = NoExc /\ x.status = 201
                           THEN fixture.server \cup {id} ELSE fixture.server]
    /\ UNCHANGED <<clientVars, page, driver_fixture>>

\* The test ends and cleanup_events resumes after its yield.
TestEnds ==
    /\ fixture.pc = "test"
    /\ fixture' = [fixture EXCEPT !.pc = "teardown", !.at_end = fixture.server]
    /\ UNCHANGED <<clientVars, page, driver_fixture>>

\* for event_id in event_ids: events_api.delete_event(event_id) -- one iteration;
\* the record delete_event returns is dropped, and the server drops the event when
\* it answered 204.
TeardownDelete ==
    /\ fixture.pc = "teardown"
    /\ fixture.next <= Len(fixture.event_ids)
    /\ \E x \in DeleteReplies :
        LET event_id == fixture.event_ids[fixture.next] IN
        fixture' = [fixture EXCEPT
                       !.next = fixture.next + 1,
                       !.deleted = fixture.deleted \cup {event_id},
                       !.server = IF x.exc = NoExc /\ x.status = 204
                                  THEN fixture.server \ {event_id}
                                  ELSE fixture.server]
    /\ UNCHANGED <<clientVars, page, driver_fixture>>

\* The loop is over: logger.info(...) and the fixture returns.
TeardownDone ==
    /\ fixture.pc = "teardown"
    /\ fixture.next > Len(fixture.event_ids)
    /\ fixture' = [fixture EXCEPT !.pc = "done"]
    /\ UNCHANGED <<clientVars, page, driver_fixture>>

NextCleanup ==
    \/ FixtureSetup
    \/ TestCreatesEvent
    \/ TestEnds
    \/ TeardownDelete
    \/ TeardownDone

SpecCleanup == InitCleanup /\ [][NextCleanup]_vars

-----------------------------------------------------------------------------
(* The page objects (pages/base_page.py, pages/personal_events_page.py,        *)
(* pages/login_page.py) on a page of the browser.                              *)

\* The locators the page objects look up.
Locators ==
    {"EVENT_ACTIONS", "EDIT_EVENT_BUTTON", "DELETE_EVENT_BUTTON",
     "CONFIRM_DELETE_MODAL", "CONFIRM_DELETE_BUTTON", "EVENT_FORM_INPUTS",
     "EVENT_REMINDER_SELECT", "EVENT_RECURRING_CHECKBOX",
     "EVENT_RECURRENCE_PATTERN_SELECT", "SAVE_EVENT_BUTTON", "ERROR_MESSAGE"}

\* A text is the sequence of its characters.  str.strip(): the text without its
\* leading and trailing blanks.
RECURSIVE lstrip(_)
lstrip(text) ==
    IF text # <<>> /\ Head(text) = " " THEN lstrip(Tail(text)) ELSE text

RECURSIVE rstrip(_)
rstrip(text) ==
    IF text # <<>> /\ text[Len(text)] = " "
    THEN rstrip(SubSeq(text, 1, Len(text) - 1)) ELSE text

\* A strip that trims the head only (C25 must tell it from strip).
strip_left_only(text) == lstrip(text)

strip(text) == rstrip(lstrip(text))

\* An item of the event list: its title element can be read (and has this text) or
\* not (event.find_element(*EVENT_TITLE) raises).
Item(readable, title) == [readable |-> readable, title |-> title]

\* The texts the title elements show, and the items of the list.
TitleTexts == {<<"a">>, <<" ", "a">>, <<"a", " ">>, <<"b">>}
Items == {Item(TRUE, t) : t \in TitleTexts} \cup {Item(FALSE, <<>>)}

\* The longest event list on the page.
MaxItems == 2

\* The values a page-object method gives its caller.
PyBool(b) == [cls |-> "bool", value |-> b]
PyNone == [cls |-> "NoneType"]
PyValue(cls, v) == [cls |-> cls, value |-> v]
PyRaised(e) == [cls |-> "Raised", exc |-> e]

\* BasePage.find_element: the wait finds the element, or TimeoutException is
\* logged and raised again.
find_element(dom, locator) ==
    IF locator \in dom.shown THEN PyValue("WebElement", locator)
    ELSE PyRaised("TimeoutException")

\* A find_elements that raises like find_element (C30 must tell it from
\* find_elements).
find_elements_raising(dom, elements) ==
    IF elements # <<>> THEN PyValue("list", elements)
    ELSE PyRaised("TimeoutException")

\* BasePage.find_elements: presence_of_all_elements_located gives the elements
\* when there is at least one and times out otherwise; except TimeoutException:
\* return [].
find_elements(dom, elements) ==
    IF elements # <<>> THEN PyValue("list", elements)
    ELSE PyValue("list", <<>>)

\* BasePage.is_visible: True, or False on TimeoutException.
is_visible(dom, locator) == locator \in dom.shown

\* The elements EVENT_LIST matches: the items.  The elements EVENT_TITLE
\* matches: the title elements of the items that have one.
event_list_elements(dom) == dom.items
event_title_elements(dom) == SelectSeq(dom.items, LAMBDA it : it.readable)

\* PersonalEventsPage.get_events_count: len(find_elements(EVENT_LIST)).
get_events_count(dom) ==
    LET events == find_elements(dom, event_list_elements(dom)) IN
    IF events.cls = "Raised" THEN events
    ELSE PyValue("int", Len(events.value))

\* PersonalEventsPage.get_event_titles: event.text.strip() of every EVENT_TITLE.
get_event_titles(dom) ==
    LET events == find_elements(dom, event_title_elements(dom)) IN
    IF events.cls = "Raised" THEN events
    ELSE PyValue("list", [i \in 1..Len(events.value) |->
                             strip(events.value[i].title)])

\* LoginPage.get_error_message: if self.is_error_displayed(): return
\* self.get_text(ERROR_MESSAGE); return None.  get_text finds the element again.
get_error_message(dom) ==
    IF is_visible(dom, "ERROR_MESSAGE")
    THEN LET element == find_element(dom, "ERROR_MESSAGE") IN
         IF element.cls = "Raised" THEN element ELSE PyValue("str", dom.error)
    ELSE PyNone

\* The loop of find_event_by_title from 0-based index idx on: the title of the
\* item is read and stripped; an item that cannot be read is skipped (except:
\* continue); the first match is returned with its index, None after the loop.
RECURSIVE scan_events(_, _, _)
scan_events(events, idx, title) ==
    IF events = <<>> THEN PyNone
    ELSE IF Head(events).readable /\ strip(Head(events).title) = title
         THEN [cls |-> "tuple", idx |-> idx, event |-> Head(events)]
         ELSE scan_events(Tail(events), idx + 1, title)

\* PersonalEventsPage.find_event_by_title
find_event_by_title(dom, title) ==
    LET events == find_elements(dom, event_list_elements(dom)) IN
    IF events.cls = "Raised" THEN events
    ELSE scan_events(events.value, 0, title)

\* How far a page-object method got: the page as it left it, log the clicks and
\* inputs it made in order, exc the exception that ended it (NoExc: none yet).
Out(dom, log, exc) == [dom |-> dom, log |-> log, exc |-> exc]

\* The next statement F runs unless an exception ended the method before.
Then(o, F(_)) == IF o.exc # NoExc THEN o ELSE F(o)

\* BasePage.click: find_element(locator), element.click().
click(o, locator) ==
    IF find_element(o.dom, locator).cls = "Raised"
    THEN [o EXCEPT !.exc = "TimeoutException"]
    ELSE [o EXCEPT !.log = Append(@, "click:" \o locator)]

\* event.find_element(*EVENT_ACTIONS).click(): a lookup without a wait, which
\* raises NoSuchElementException.
click_actions(o) ==
    IF "EVENT_ACTIONS" \notin o.dom.shown
    THEN [o EXCEPT !.exc = "NoSuchElementException"]
    ELSE [o EXCEPT !.log = Append(@, "click:EVENT_ACTIONS")]

\* BasePage.type_text into an input of the event form: find_element, clear,
\* send_keys.
type_text(o, input) ==
    IF find_element(o.dom, "EVENT_FORM_INPUTS").cls = "Raised"
    THEN [o EXCEPT !.exc = "TimeoutException"]
    ELSE [o EXCEPT !.log = Append(@, "type:" \o input)]

\* The values the reminder select offers.
ReminderOptions == {"15", "30", "60"}

\* PersonalEventsPage.select_reminder: Select(find_element(...)).
\* select_by_value(str(minutes)), which raises NoSuchElementException for a
\* value that is no option.
select_reminder(o, minutes) ==
    IF find_element(o.dom, "EVENT_REMINDER_SELECT").cls = "Raised"
    THEN [o EXCEPT !.exc = "TimeoutException"]
    ELSE IF ToString(minutes) \notin ReminderOptions
    THEN [o EXCEPT !.exc = "NoSuchElementException"]
    ELSE [o EXCEPT !.dom.reminder = ToString(minutes),
                   !.log = Append(@, "select:EVENT_REMINDER_SELECT")]

\* A set_recurring that clicks whenever the flag is set (C29 must tell it from
\* set_recurring).
set_recurring_click_if_flag(o, is_recurring) ==
    IF find_element(o.dom, "EVENT_RECURRING_CHECKBOX").cls = "Raised"
    THEN [o EXCEPT !.exc = "TimeoutException"]
    ELSE IF is_recurring
    THEN [o EXCEPT !.dom.recurring = ~o.dom.recurring,
                   !.log = Append(@, "click:EVENT_RECURRING_CHECKBOX")]
    ELSE o

\* PersonalEventsPage.set_recurring: checkbox = find_element(...); if
\* is_recurring != checkbox.is_selected(): checkbox.click().  A click on a
\* checkbox turns its selection over.
set_recurring(o, is_recurring) ==
    IF find_element(o.dom, "EVENT_RECURRING_CHECKBOX").cls = "Raised"
    THEN [o EXCEPT !.exc = "TimeoutException"]
    ELSE IF is_recurring # o.dom.recurring
    THEN [o EXCEPT !.dom.recurring = ~o.dom.recurring,
                   !.log = Append(@, "click:EVENT_RECURRING_CHECKBOX")]
    ELSE o

\* PersonalEventsPage.select_recurrence_pattern: only when the select is visible.
select_recurrence_pattern(o, pattern) ==
    IF is_visible(o.dom, "EVENT_RECURRENCE_PATTERN_SELECT")
    THEN [o EXCEPT !.log = Append(@, "select:EVENT_RECURRENCE_PATTERN_SELECT")]
    ELSE o

\* The recurring part of fill_event_form: if event_data.is_recurring:
\* set_recurring(...); if event_data.recurrence_pattern: select_recurrence_pattern.
fill_recurring(o, event_data) ==
    IF event_data.is_recurring
    THEN Then(set_recurring(o, event_data.is_recurring),
              LAMBDA o1 : IF truthy(event_data.recurrence_pattern)
                          THEN select_recurrence_pattern(
                                   o1, event_data.recurrence_pattern)
                          ELSE o1)
    ELSE o

\* PersonalEventsPage.fill_event_form
fill_event_form(o, event_data) ==
    Then(type_text(o, "title"), LAMBDA o1 :
    Then(type_text(o1, "description"), LAMBDA o2 :
    Then(type_text(o2, "start_date"), LAMBDA o3 :
    Then(type_text(o3, "end_date"), LAMBDA o4 :
    Then(IF truthy(event_data.location) THEN type_text(o4, "location") ELSE o4,
         LAMBDA o5 :
    Then(IF event_data.reminder_minutes # 0
         THEN select_reminder(o5, event_data.reminder_minutes) ELSE o5,
         LAMBDA o6 : fill_recurring(o6, event_data)))))))

\* PersonalEventsPage.save_event: click(SAVE_EVENT_BUTTON), wait_for_page_load.
save_event(o) == click(o, "SAVE_EVENT_BUTTON")

\* What a method that ran as o, and returns v when no exception ended it, gives
\* its caller.
Outcome(o, v) ==
    [dom |-> o.dom, log |-> o.log,
     r |-> IF o.exc # NoExc THEN PyRaised(o.exc) ELSE v]

\* PersonalEventsPage.edit_event
edit_event(dom, old_title, new_data) ==
    LET found == find_event_by_title(dom, old_title)
        o0 == Out(dom, <<>>, NoExc)
    IN  IF found.cls # "tuple" THEN Outcome(o0, PyBool(FALSE))
        ELSE Outcome(Then(click_actions(o0), LAMBDA o1 :
                     Then(click(o1, "EDIT_EVENT_BUTTON"), LAMBDA o2 :
                     Then(fill_event_form(o2, new_data), LAMBDA o3 :
                     save_event(o3)))),
                     PyBool(TRUE))

\* PersonalEventsPage.delete_event
delete_event_ui(dom, title) ==
    LET found == find_event_by_title(dom, title)
        o0 == Out(dom, <<>>, NoExc)
    IN  IF found.cls # "tuple" THEN Outcome(o0, PyBool(FALSE))
        ELSE Outcome(Then(click_actions(o0), LAMBDA o1 :
                     Then(click(o1, "DELETE_EVENT_BUTTON"), LAMBDA o2 :
                     IF is_visible(o2.dom, "CONFIRM_DELETE_MODAL")
                     THEN click(o2, "CONFIRM_DELETE_BUTTON") ELSE o2)),
                     PyBool(TRUE))

-----------------------------------------------------------------------------
(* A test that calls the page objects on a page. *)

\* The number of page-object calls a test makes on the page.
MaxUiCalls == 2

\* The event lists, the sets of locators found, and the pages a test can meet.
ItemLists == UNION {[1..n -> Items] : n \in 0..MaxItems}
ShownSets == {Locators, {}} \cup {Locators \ {l} : l \in Locators}
Doms ==
    {Dom(items, shown, recurring, reminder, "Nevernyy login ili parol") :
        items \in ItemLists, shown \in ShownSets, recurring \in BOOLEAN,
        reminder \in {"15", "30"}}

\* The titles and events the tests pass to the page objects; an EventData with
\* neither location nor reminder nor recurrence.
UiTitles == {<<"a">>, <<"b">>, <<"c">>, <<" ", "a">>}
PLAIN_EVENT == EventData("Zametka", "", 5, 6, None, 0, FALSE, None)
UiEvents == {SIMPLE_EVENT, RECURRING_EVENT, PLAIN_EVENT}

InitPage ==
    /\ ClientInit(ReplyInputs)
    /\ fixture = NoFixture
    /\ driver_fixture = NoDriverFixture
    /\ \E dom \in Doms : page = Page(dom, 0, NoUiCall)

\* The test may call a page-object method.
UiCanCall == page.call.op = "none" /\ page.n < MaxUiCalls

\* A method that only reads the page gives v.
Reads(v) == [dom |-> page.dom, log |-> <<>>, r |-> v]

\* The call returns (or raises) as out says.
UiReturns(op, title, data, flag, locator, out) ==
    /\ page' = Page(out.dom, page.n + 1,
                    UiCall(op, title, data, flag, locator, out.r, out.log,
                           page.dom))
    /\ UNCHANGED <<clientVars, fixture, driver_fixture>>

UiFindElement ==
    /\ UiCanCall
    /\ \E l \in Locators :
        UiReturns("find_element", <<>>, NoDescriptor, FALSE, l,
                  Reads(find_element(page.dom, l)))

UiFindElements ==
    /\ UiCanCall
    /\ UiReturns("find_elements", <<>>, NoDescriptor, FALSE, "EVENT_LIST",
                 Reads(find_elements(page.dom, event_list_elements(page.dom))))

UiIsVisible ==
    /\ UiCanCall
    /\ \E l \in Locators :
        UiReturns("is_visible", <<>>, NoDescriptor, FALSE, l,
                  Reads(PyBool(is_visible(page.dom, l))))

UiGetEventsCount ==
    /\ UiCanCall
    /\ UiReturns("get_events_count", <<>>, NoDescriptor, FALSE, "none",
                 Reads(get_events_count(page.dom)))

UiGetEventTitles ==
    /\ UiCanCall
    /\ UiReturns("get_event_titles", <<>>, NoDescriptor, FALSE, "none",
                 Reads(get_event_titles(page.dom)))

UiGetErrorMessage ==
    /\ UiCanCall
    /\ UiReturns("get_error_message", <<>>, NoDescriptor, FALSE, "none",
                 Reads(get_error_message(page.dom)))

UiFindEventByTitle ==
    /\ UiCanCall
    /\ \E t \in UiTitles :
        UiReturns("find_event_by_title", t, NoDescriptor, FALSE, "none",
                  Reads(find_event_by_title(page.dom, t)))

UiSetRecurring ==
    /\ UiCanCall
    /\ \E flag \in BOOLEAN :
        UiReturns("set_recurring", <<>>, NoDescriptor, flag, "none",
                  Outcome(set_recurring(Out(page.dom, <<>>, NoExc), flag),
                          PyNone))

UiFillEventForm ==
    /\ UiCanCall
    /\ \E e \in UiEvents :
        UiReturns("fill_event_form", <<>>, e, FALSE, "none",
                  Outcome(fill_event_form(Out(page.dom, <<>>, NoExc), e),
                          PyNone))

UiEditEvent ==
    /\ UiCanCall
    /\ \E t \in UiTitles, e \in UiEvents :
        UiReturns("edit_event", t, e, FALSE, "none", edit_event(page.dom, t, e))

UiDeleteEvent ==
    /\ UiCanCall
    /\ \E t \in UiTitles :
        UiReturns("delete_event", t, NoDescriptor, FALSE, "none",
                  delete_event_ui(page.dom, t))

\* The test goes on after the call.
UiContinues ==
    /\ page.call.op # "none"
    /\ page' = [page EXCEPT !.call = NoUiCall]
    /\ UNCHANGED <<clientVars, fixture, driver_fixture>>

NextPage ==
    \/ UiFindElement
    \/ UiFindElements
    \/ UiIsVisible
    \/ UiGetEventsCount
    \/ UiGetEventTitles
    \/ UiGetErrorMessage
    \/ UiFindEventByTitle
    \/ UiSetRecurring
    \/ UiFillEventForm
    \/ UiEditEvent
    \/ UiDeleteEvent
    \/ UiContinues

SpecPage == InitPage /\ [][NextPage]_vars

-----------------------------------------------------------------------------
(* The driver fixture (tests/conftest.py) around a test. *)

\* str.lower() on the letters of the browser names: the capitals become small
\* letters, every other character stays.
lower_char(c) ==
    CASE c = "C" -> "c" [] c = "H" -> "h" [] c = "R" -> "r" [] c = "O" -> "o"
      [] c = "M" -> "m" [] c = "E" -> "e" [] c = "F" -> "f" [] c = "I" -> "i"
      [] c = "X" -> "x" [] c = "D" -> "d" [] c = "G" -> "g" [] c = "S" -> "s"
      [] c = "A" -> "a" [] OTHER -> c
lower(text) == [i \in DOMAIN text |-> lower_char(text[i])]

\* The values of --browser the suite is run with.
chrome == <<"c", "h", "r", "o", "m", "e">>
firefox == <<"f", "i", "r", "e", "f", "o", "x">>
edge == <<"e", "d", "g", "e">>
safari == <<"s", "a", "f", "a", "r", "i">>
BrowserTypes ==
    {chrome, <<"C", "h", "r", "o", "m", "e">>, <<"C", "H", "R", "O", "M", "E">>,
     firefox, <<"F", "i", "r", "e", "f", "o", "x">>,
     edge, <<"E", "d", "g", "e">>,
     safari, <<"S", "a", "f", "a", "r", "i">>, <<>>}

\* The step of the set-up at which the browser (or its driver manager) raises.
SetupFailures ==
    {"nothing", "install", "constructor", "implicitly_wait",
     "set_page_load_timeout"}

\* How the test that uses the driver ends: passed, failed, raised, or was not
\* run because a later fixture failed.
TestOutcomes == {"passed", "failed", "error", "not run"}

\* The arguments the branch of a browser adds to its options.
browser_options(name, headless_mode) ==
    (IF headless_mode THEN {"--headless"} ELSE {})
    \cup (IF name = chrome
          THEN {"--no-sandbox", "--disable-dev-shm-usage",
                "--window-size=1920,1080", "--disable-gpu",
                "--disable-extensions", "--disable-notifications"}
          ELSE IF name = firefox THEN {"--width=1920", "--height=1080"}
          ELSE {"--no-sandbox", "--disable-dev-shm-usage",
                "--window-size=1920,1080"})

\* A finally clause that quits only when no exception is on its way (C23 must
\* tell it from finally_quit).
finally_quit_if_no_exception(f) ==
    IF f.driver.made /\ f.raised = NoExc
    THEN [f EXCEPT !.quits = @ + 1] ELSE f

\* finally: if driver: driver.quit()
finally_quit(f) ==
    IF f.driver.made THEN [f EXCEPT !.quits = @ + 1] ELSE f

\* except Exception as e: log; raise -- then the finally clause; the exception
\* leaves the fixture.
except_and_finally(f, e) ==
    [finally_quit([f EXCEPT !.raised = e]) EXCEPT !.pc = "raised"]

\* The fixture up to its yield.
driver_setup(f) ==
    LET name == lower(f.browser_type) IN
    IF name \notin {chrome, firefox, edge}
    THEN except_and_finally(f, "ValueError")
    ELSE LET opts == [f EXCEPT !.options = browser_options(name, f.headless_mode)]
             made == [opts EXCEPT !.driver = WebDriver(name)]
         IN  IF f.fails \in {"install", "constructor"}
             THEN except_and_finally(opts, "WebDriverException")
             ELSE IF f.fails \in {"implicitly_wait", "set_page_load_timeout"}
             THEN except_and_finally(made, "WebDriverException")
             ELSE [made EXCEPT !.pc = "yield"]

InitDriver ==
    /\ ClientInit(ReplyInputs)
    /\ fixture = NoFixture
    /\ page = NoPage
    /\ \E b \in BrowserTypes, h \in BOOLEAN, fails \in SetupFailures :
        driver_fixture =
            DriverFixture("setup", b, h, fails, {}, NoDriver, 0, NoExc, "none")

\* pytest sets the fixture up: the generator runs to its yield, or raises.
DriverSetup ==
    /\ driver_fixture.pc = "setup"
    /\ driver_fixture' = driver_setup(driver_fixture)
    /\ UNCHANGED <<clientVars, fixture, page>>

\* The test (and the fixtures set up after this one) run with the driver.
DriverTestRuns ==
    /\ driver_fixture.pc = "yield"
    /\ \E t \in TestOutcomes :
        driver_fixture' = [driver_fixture EXCEPT !.test = t, !.pc = "teardown"]
    /\ UNCHANGED <<clientVars, fixture, page>>

\* pytest tears the fixture down: the generator goes on after its yield, into
\* the finally clause.
DriverTeardown ==
    /\ driver_fixture.pc = "teardown"
    /\ driver_fixture' = [finally_quit(driver_fixture) EXCEPT !.pc = "done"]
    /\ UNCHANGED <<clientVars, fixture, page>>

NextDriver ==
    \/ DriverSetup
    \/ DriverTestRuns
    \/ DriverTeardown

SpecDriver == InitDriver /\ [][NextDriver]_vars

-----------------------------------------------------------------------------
(* What the specification says of the operations: its tables and fixed strings. *)

AuthOps == {"login", "logout", "validate_token", "refresh_token", "register"}
EventOps == {"create_event", "get_event", "update_event", "delete_event", "get_events"}
Ops == AuthOps \cup EventOps

\* The operations that read an error body.
ErrorBodyOps ==
    {"login", "register", "create_event", "get_event", "update_event",
     "delete_event", "get_events"}

\* The operations that parse the body of a success response (logout and
\* delete_event return without looking at it).
BodyParsingOps == Ops \ {"logout", "delete_event"}

\* The operations with a designated not-found code.
NotFoundOps == {"get_event", "update_event", "delete_event"}

\* The designated success code of an operation.
SuccessCode(op) ==
    CASE op \in {"register", "create_event"} -> 201
      [] op = "delete_event" -> 204
      [] OTHER -> 200

\* The fixed strings.
ConnectionTimeoutError == "Taymaut soedineniya"
NetworkError == "Oshibka seti"
EventNotFoundError == "Sobytie ne naydeno"

\* The generic error string of an operation.
GenericError(op) ==
    CASE op = "login" -> "Oshibka avtorizatsii"
      [] op = "register" -> "Oshibka registratsii"
      [] op = "create_event" -> "Oshibka sozdaniya sobytiya"
      [] op = "get_event" -> "Oshibka polucheniya sobytiya"
      [] op = "update_event" -> "Oshibka obnovleniya sobytiya"
      [] op = "delete_event" -> "Oshibka udaleniya sobytiya"
      [] op = "get_events" -> "Oshibka polucheniya spiska sobytiy"
      [] OTHER -> None

\* An operation was called and has ended.
Ended == call.op \in Ops
\* It gave its caller a record.
IsRecord == result.cls \in {"AuthResponse", "EventResponse", "EventsListResponse"}
\* The server answered the request.
Answered == Ended /\ exch.exc = NoExc
\* The server answered with the operation's designated success code.
AnsweredSuccessCode == Answered /\ exch.status = SuccessCode(call.op)
\* The server answered with the operation's designated not-found code.
AnsweredNotFound == Answered /\ call.op \in NotFoundOps /\ exch.status = 404

-----------------------------------------------------------------------------
(* C1 *)

\* C1: every operation, for every server reply and every transport failure, gives
\* its caller a record and lets no exception propagate; a body that is not JSON on
\* the designated success code of an operation that parses the body gives a record
\* with success = FALSE.
C1_NeverRaises ==
    Ended =>
        /\ IsRecord
        /\ ((/\ AnsweredSuccessCode
             /\ call.op \in BodyParsingOps
             /\ exch.body.kind = "malformed") => result.success = FALSE)

(* C2 *)

\* C2: when the HTTP call ends in a transport timeout, every operation returns
\* success = FALSE, error = the one connection-timeout string (which is not the
\* network-error string) and no status code.
C2_TimeoutRecord ==
    (Ended /\ exch.exc = "Timeout") =>
        /\ IsRecord
        /\ result.success = FALSE
        /\ result.error = ConnectionTimeoutError
        /\ result.error # NetworkError
        /\ result.status_code = NoStatus

(* C3 *)

\* C3: a returned record has no status code if and only if no HTTP response was
\* received; when the server answered, the record carries the status code of the
\* answer, whatever the body.
C3_StatusCodeIffAnswered ==
    (Ended /\ IsRecord) =>
        /\ (result.status_code = NoStatus) <=> (exch.exc # NoExc)
        /\ (exch.exc = NoExc => result.status_code = exch.status)

(* C4 *)

\* C4 as stated: for every response with the operation's designated success code,
\* the returned record has success = TRUE and status_code = the code received.
C4_SuccessCodeAnyBody ==
    (AnsweredSuccessCode /\ IsRecord) =>
        /\ result.success = TRUE
        /\ result.status_code = exch.status

\* The body of a success response is usable by the operation: logout and
\* delete_event do not read it, get_event and update_event store any parsed JSON,
\* the other operations look keys up in it and need a JSON object.
BodyUsable(op, body) ==
    \/ op \in {"logout", "delete_event"}
    \/ op \in {"get_event", "update_event"} /\ body.kind \in {"nonobject", "object"}
    \/ body.kind = "object"

\* C4, amended: for every response with the operation's designated success code
\* and a body the operation can use, the operation returns a record with
\* success = TRUE and status_code = the code received.
C4_SuccessCode ==
    (AnsweredSuccessCode /\ BodyUsable(call.op, exch.body)) =>
        /\ IsRecord
        /\ result.success = TRUE
        /\ result.status_code = exch.status

\* register answered 201 with a JSON object carrying a token.
C4_Witness ==
    /\ call.op = "register"
    /\ exch.exc = NoExc /\ exch.status = 201
    /\ exch.body.kind = "object" /\ exch.body.token = "abc"
    /\ result.success = TRUE /\ result.status_code = 201

(* C5 *)

\* C5: a response whose status code is not the operation's designated success code
\* yields success = FALSE, other 2xx codes included.
C5_OtherCodesFail ==
    (Answered /\ exch.status # SuccessCode(call.op)) =>
        /\ IsRecord
        /\ result.success = FALSE

(* C6 *)

\* C6: in every returned record success is TRUE or FALSE, and success = TRUE
\* implies that error is unset.
C6_SuccessHasNoError ==
    (Ended /\ IsRecord) =>
        /\ result.success \in BOOLEAN
        /\ (result.success = TRUE => result.error = None)

\* get_events answered 200 with a JSON object that carries an error key.
C6_Witness ==
    /\ call.op = "get_events"
    /\ exch.exc = NoExc /\ exch.status = 200
    /\ exch.body.kind = "object" /\ exch.body.error = "bad credentials"
    /\ IsRecord /\ result.success = TRUE

(* C7 *)

\* C7: in every record returned with success = FALSE the payload is unset: token
\* and user_id, event_id and data, and events = [] with total = 0, whatever the
\* body of the failing response held.
C7_FailureHasNoPayload ==
    (Ended /\ IsRecord /\ result.success = FALSE) =>
        /\ result.cls = "AuthResponse" =>
              result.token = None /\ result.user_id = None
        /\ result.cls = "EventResponse" =>
              result.event_id = None /\ result.data = NoData
        /\ result.cls = "EventsListResponse" =>
              result.events = PyList(<<>>) /\ result.total = PyInt(0)

\* get_events answered 500 with a JSON object that lists an event.
C7_Witness ==
    /\ call.op = "get_events"
    /\ exch.exc = NoExc /\ exch.status = 500
    /\ exch.body.kind = "object" /\ exch.body.events = PyList(<<SampleEvent>>)
    /\ IsRecord /\ result.success = FALSE

(* C8 *)

\* C8: get_event, update_event and delete_event answered 404 return
\* success = FALSE, status_code = 404 and the one event-not-found string as error,
\* for every body, and do not read the body.
C8_NotFound ==
    AnsweredNotFound =>
        /\ IsRecord
        /\ result.success = FALSE
        /\ result.status_code = 404
        /\ result.error = EventNotFoundError
        /\ bodyRead = FALSE

\* get_event answered 404 with a JSON object carrying its own error.
C8_Witness ==
    /\ call.op = "get_event"
    /\ exch.exc = NoExc /\ exch.status = 404
    /\ exch.body.kind = "object" /\ exch.body.error = "bad credentials"
    /\ result.error = EventNotFoundError

(* C9 *)

\* C9: for the operations that read an error body, a response with a non-success
\* status code (not the designated 404) whose body is empty or is not JSON yields
\* success = FALSE, status_code = the code received and the operation's generic
\* error string.
C9_GenericErrorOnUnreadableBody ==
    (/\ Answered
     /\ call.op \in ErrorBodyOps
     /\ exch.status # SuccessCode(call.op)
     /\ ~AnsweredNotFound
     /\ exch.body.kind \in {"empty", "malformed"}) =>
        /\ IsRecord
        /\ result.success = FALSE
        /\ result.status_code = exch.status
        /\ result.error = GenericError(call.op)

(* C10 *)

\* What C10 says of a response with a JSON object as body.
ErrorFromBody ==
    /\ IsRecord
    /\ result.success = FALSE
    /\ result.status_code = exch.status
    /\ result.error = (IF exch.body.error = Absent THEN GenericError(call.op)
                                                    ELSE exch.body.error)
    /\ result.message = (IF exch.body.message = Absent THEN None
                                                        ELSE exch.body.message)

\* C10 as stated: for the operations that read an error body, every response with
\* a non-success status code and a JSON object as body yields success = FALSE,
\* status_code = the code received, error = the body's error (else the generic
\* string) and message = the body's message (else unset).
C10_ErrorFromBodyAnyCode ==
    (/\ Answered
     /\ call.op \in ErrorBodyOps
     /\ exch.status # SuccessCode(call.op)
     /\ exch.body.kind = "object") => ErrorFromBody

\* C10, amended: the same for every non-success status code other than the 404 of
\* get_event, update_event and delete_event.
C10_ErrorFromBody ==
    (/\ Answered
     /\ call.op \in ErrorBodyOps
     /\ exch.status # SuccessCode(call.op)
     /\ ~AnsweredNotFound
     /\ exch.body.kind = "object") => ErrorFromBody

\* update_event answered 500 with a JSON object carrying an error and a message;
\* and login answered 401 with {"error": "bad credentials"}.
C10_Witness ==
    \/ /\ call.op = "update_event"
       /\ exch.exc = NoExc /\ exch.status = 500
       /\ exch.body.kind = "object"
       /\ exch.body.error = "bad credentials" /\ exch.body.message = "msg"
       /\ result.error = "bad credentials" /\ result.message = "msg"
    \/ /\ call.op = "login"
       /\ exch.exc = NoExc /\ exch.status = 401
       /\ exch.body.kind = "object"
       /\ exch.body.error = "bad credentials" /\ exch.body.message = Absent
       /\ result.error = "bad credentials" /\ result.status_code = 401

(* C11 *)

\* C11: a transport exception other than a timeout (connection refused or reset)
\* makes every operation return success = FALSE, error = the network-error string,
\* message = the text of the exception, and no status code.
C11_NetworkError ==
    (Ended /\ exch.exc = "ConnectionError") =>
        /\ IsRecord
        /\ result.success = FALSE
        /\ result.error = NetworkError
        /\ result.message = str("ConnectionError")
        /\ result.status_code = NoStatus

\* login and create_event (the two with an except RequestException clause) and
\* logout (except Exception) after a refused connection.
C11_Witness ==
    /\ call.op \in {"login", "create_event", "logout"}
    /\ exch.exc = "ConnectionError"
    /\ IsRecord /\ result.error = NetworkError

(* C12 *)

\* The fixed login-success string.
LoginSuccessMessage == "Avtorizatsiya uspeshna"

\* The value a record field takes from the key of a JSON object: unset when the
\* key is absent (or null).
FromKey(v) == IF v = Absent THEN None ELSE v

\* C12: login answered 200 with a JSON object returns success = TRUE, token and
\* user_id with the body's values (unset when the key is absent) and message with
\* the body's message, or the login-success string when the body has no message.
C12_LoginSuccess ==
    (/\ call.op = "login"
     /\ exch.exc = NoExc /\ exch.status = 200
     /\ exch.body.kind = "object") =>
        /\ IsRecord
        /\ result.success = TRUE
        /\ result.token = FromKey(exch.body.token)
        /\ result.user_id = FromKey(exch.body.user_id)
        /\ result.message = (IF exch.body.message = Absent THEN LoginSuccessMessage
                                                            ELSE exch.body.message)

\* login answered 200 with {"token": "abc", "user_id": "u1"}.
C12_Witness ==
    /\ call.op = "login"
    /\ exch.exc = NoExc /\ exch.status = 200
    /\ exch.body.kind = "object"
    /\ exch.body.token = "abc" /\ exch.body.user_id = "u1"
    /\ exch.body.message = Absent
    /\ result.success = TRUE /\ result.token = "abc" /\ result.user_id = "u1"
    /\ result.message = LoginSuccessMessage

(* C18 *)

\* C18: delete_event answered 204 returns success = TRUE with status_code = 204
\* and neither event_id nor data, and does not read the body: the record is the
\* same for an empty, a non-empty and an unparsable body.
C18_DeleteNoContent ==
    (call.op = "delete_event" /\ exch.exc = NoExc /\ exch.status = 204) =>
        /\ IsRecord
        /\ result.success = TRUE
        /\ result.status_code = 204
        /\ result.event_id = None
        /\ result.data = NoData
        /\ result.error = None
        /\ bodyRead = FALSE

\* delete_event answered 204 with an empty body, and with a body that is not JSON.
C18_Witness ==
    /\ call.op = "delete_event"
    /\ exch.exc = NoExc /\ exch.status = 204
    /\ exch.body.kind \in {"empty", "malformed"}
    /\ result.success = TRUE

(* C13 *)

\* The operations of EventsAPI, the title look-ups included.
EventsApiOps == EventOps \cup {"event_exists", "get_event_by_title"}

\* C13: once the test has called set_auth_token(t), every request of the events
\* client carries Authorization: Bearer t for the latest t; before the first such
\* call, a client constructed with None or "" sends no Authorization header.
C13_BearerOfLatestToken ==
    (call.op \in EventsApiOps) =>
        /\ (token_set # Absent) => (req.authorization = "Bearer " \o token_set)
        /\ (token_set = Absent /\ ctor_token \in {None, ""}) =>
               (req.authorization = Absent)

\* A client constructed with the token t1, set to t2 later, sends Bearer t2.
C13_Witness ==
    /\ call.op = "create_event"
    /\ ctor_token = "t1"
    /\ token_set = "t2"
    /\ req.authorization = "Bearer t2"

(* C15 *)

\* C15 as stated: get_events sends a query parameter exactly when the caller
\* passed the argument; limit and offset are not sent when omitted.
C15_OnlySuppliedFilters ==
    (call.op = "get_events") =>
        /\ (req.params.limit.t = "absent") <=> (call.args.limit.t = "absent")
        /\ (req.params.offset.t = "absent") <=> (call.args.offset.t = "absent")
        /\ (req.params.search = Absent) <=> (call.args.search = None)
        /\ (req.params.start_date = Absent) <=> (call.args.start_date.t = "null")
        /\ (req.params.end_date = Absent) <=> (call.args.end_date.t = "null")

\* C15, amended: limit and offset are always sent, with the caller's value or the
\* defaults 50 and 0; search is sent exactly when given and not empty; start_date
\* and end_date are sent exactly when given.
C15_FiltersSent ==
    (call.op = "get_events") =>
        /\ req.params.limit =
              (IF call.args.limit.t = "absent" THEN PyInt(50) ELSE call.args.limit)
        /\ req.params.offset =
              (IF call.args.offset.t = "absent" THEN PyInt(0) ELSE call.args.offset)
        /\ req.params.search =
              (IF call.args.search \in {None, ""} THEN Absent ELSE call.args.search)
        /\ (req.params.start_date = Absent) <=> (call.args.start_date.t = "null")
        /\ (req.params.end_date = Absent) <=> (call.args.end_date.t = "null")

\* get_events(search="", start_date=d): limit=50 and offset=0 are sent, search is
\* not, start_date is.
C15_Witness ==
    /\ call.op = "get_events"
    /\ call.args.limit.t = "absent" /\ call.args.offset.t = "absent"
    /\ call.args.search = ""
    /\ call.args.start_date.t = "int" /\ call.args.end_date.t = "null"
    /\ req.params.limit = PyInt(50) /\ req.params.offset = PyInt(0)
    /\ req.params.search = Absent
    /\ req.params.start_date # Absent /\ req.params.end_date = Absent

(* C19 *)

\* The operations that take a descriptor.
DescriptorOps == {"create_event", "update_event", "register", "login_with_user_data"}

\* C19: after create_event, update_event, register or login_with_user_data
\* returned or raised, every field of the EventData / UserData it was given has
\* the value it had before the call.
C19_DescriptorUnchanged ==
    (call.op \in DescriptorOps) =>
        /\ DOMAIN descriptor = DOMAIN call.descriptor
        /\ \A f \in DOMAIN call.descriptor : descriptor[f] = call.descriptor[f]

\* update_event of an event without a recurrence pattern failed on a timeout, and
\* create_event raised: the descriptor still has recurrence_pattern = None.
C19_Witness ==
    /\ call.op \in {"create_event", "update_event"}
    /\ call.descriptor.cls = "EventData"
    /\ call.descriptor.recurrence_pattern = None
    /\ descriptor.recurrence_pattern = None
    /\ \/ exch.exc = "Timeout"
       \/ result.cls = "Raised"

(* C17 *)

\* The operations that return a record.
RecordOps == Ops \cup {"login_with_user_data"}

\* C17: every call of a client operation issues exactly one HTTP request, whatever
\* comes back, and the operations that return a record return one; event_exists
\* and get_event_by_title issue one list request each.
C17_OneRequestOneRecord ==
    [][(Idle /\ ~Idle') =>
          /\ nreq' = nreq + 1
          /\ req'.method # "none"
          /\ (call'.op \in RecordOps) => IsRecord']_vars

\* C17, the request count alone: every call issues exactly one request.
C17_OneRequest ==
    [][(Idle /\ ~Idle') => (nreq' = nreq + 1 /\ req'.method # "none")]_vars

(* C16 *)

\* The list of events the list request brought back: the "events" of a 200 reply
\* with a JSON object, and nothing when the request failed.
ReturnedList ==
    IF /\ exch.exc = NoExc /\ exch.status = 200 /\ exch.body.kind = "object"
       /\ exch.body.events.t = "list"
    THEN exch.body.events.v
    ELSE <<>>

\* The positions of the returned list whose event has exactly this title.
Matching(title) ==
    {i \in 1..Len(ReturnedList) : ReturnedList[i].title = title}

\* The first event of the returned list with exactly this title, or None.
FirstMatch(title) ==
    IF Matching(title) = {} THEN [cls |-> "NoneType"]
    ELSE [cls |-> "dict",
          value |-> ReturnedList[CHOOSE i \in Matching(title) :
                                    \A j \in Matching(title) : i <= j]]

\* C16 as stated: get_event_by_title(title) issues one list request with
\* search=title and returns the first event of the returned list with exactly that
\* title, or None; event_exists is false for 200 {"events": [], "total": 0}.
C16_SearchEqualsTitle ==
    /\ (call.op = "get_event_by_title") =>
          /\ req.method = "GET" /\ req.path = "/api/v1/events"
          /\ req.params.search = call.title
          /\ result = FirstMatch(call.title)
    /\ (call.op = "event_exists" /\ exch.exc = NoExc /\ exch.status = 200
        /\ exch.body.kind = "object" /\ exch.body.events = PyList(<<>>)) =>
          (result = [cls |-> "bool", value |-> FALSE])

\* C16, amended: the list request carries search=title for a title that is not
\* empty and no search parameter for the empty title; the result is the first
\* exact match of the returned list, or None.
C16_FirstExactMatch ==
    /\ (call.op = "get_event_by_title") =>
          /\ req.method = "GET" /\ req.path = "/api/v1/events"
          /\ req.params.search = (IF call.title = "" THEN Absent ELSE call.title)
          /\ result = FirstMatch(call.title)
    /\ (call.op = "event_exists" /\ exch.exc = NoExc /\ exch.status = 200
        /\ exch.body.kind = "object" /\ exch.body.events = PyList(<<>>)) =>
          (result = [cls |-> "bool", value |-> FALSE])

\* get_event_by_title("t1") on a list of two events titled t1 returns the first.
C16_Witness ==
    /\ call.op = "get_event_by_title"
    /\ call.title = "t1"
    /\ req.params.search = "t1"
    /\ Len(ReturnedList) = 2
    /\ ReturnedList[1] = [id |-> "e1", title |-> "t1"]
    /\ ReturnedList[2] = [id |-> "e2", title |-> "t1"]
    /\ result = [cls |-> "dict", value |-> [id |-> "e1", title |-> "t1"]]

(* C20 *)

\* C20: APIClient.get and APIClient.post each issue one request to base_url +
\* endpoint with Authorization: Bearer API_TOKEN and, whatever status the server
\* answers with, return the raw response to the caller.
C20_RawResponse ==
    (call.op \in {"APIClient.get", "APIClient.post"} /\ exch.exc = NoExc) =>
        /\ req.method = (IF call.op = "APIClient.get" THEN "GET" ELSE "POST")
        /\ req.path = "API_BASE_URL" \o "/users"
        /\ req.authorization = "Bearer " \o API_TOKEN
        /\ result.cls = "Response"
        /\ result.status_code = exch.status

(* C14 *)

\* C14: when the teardown of cleanup_events is over, delete_event has been called
\* for every event that was on the server when the test ended, the events the test
\* created included.
C14_CleanupRemovesAll ==
    (fixture.pc = "done") => (fixture.at_end \subseteq fixture.deleted)

\* C14, what the teardown does: it calls delete_event for exactly the events the
\* list request before the test returned.
C14_CleanupRemovesListed ==
    (fixture.pc = "done") =>
        (fixture.deleted = {fixture.event_ids[i] : i \in 1..Len(fixture.event_ids)})

(* C24 *)

\* C24: get_upcoming_events(days), for days >= 0, returns an EventsListResponse
\* that comes of exactly one list request carrying start_date and end_date, with
\* start_date not later than end_date.
C24_UpcomingEvents ==
    (call.op = "get_upcoming_events") =>
        /\ result.cls = "EventsListResponse"
        /\ req.method = "GET" /\ req.path = "/api/v1/events"
        /\ req.params.start_date # Absent /\ req.params.end_date # Absent
        /\ call.args.start_date.t = "int" /\ call.args.end_date.t = "int"
        /\ call.args.start_date.v <= call.args.end_date.v

(* C28 *)

\* C28: every EventsListResponse of get_events has a list for events (never None)
\* and an integer for total, whatever the 200 body: without the keys "events" /
\* "total", or with null for them.
C28_ListAndInteger ==
    (call.op = "get_events" /\ result.cls = "EventsListResponse") =>
        /\ result.events.t = "list"
        /\ result.total.t = "int"

\* C28, the events half: events is a list in every record of get_events.
C28_EventsIsList ==
    (call.op = "get_events" /\ result.cls = "EventsListResponse") =>
        (result.events.t = "list")

(* C26 *)

\* C26: on the same title and the same reply to the list request, event_exists is
\* true exactly when get_event_by_title returns an event; for the empty title
\* neither sends a search filter.
C26_ExistsIffFound ==
    /\ (call.op = "event_exists") =>
          /\ result.cls = "bool"
          /\ result.value = (get_event_by_title(call.title, exch).cls = "dict")
    /\ (call.op = "get_event_by_title") =>
          /\ result.cls \in {"dict", "NoneType"}
          /\ (result.cls = "dict") = event_exists(call.title, exch).value
    /\ (call.op \in {"event_exists", "get_event_by_title"} /\ call.title = "") =>
          /\ req.params.search = Absent
          /\ req.params.limit = PyInt(50) /\ req.params.offset = PyInt(0)

\* event_exists("") on an unfiltered page whose second event has an empty title.
C26_Witness ==
    /\ call.op = "event_exists"
    /\ call.title = ""
    /\ req.params.search = Absent
    /\ exch.exc = NoExc /\ exch.status = 200
    /\ exch.body.events = PyList(<<[id |-> "e1", title |-> "t1"],
                                   [id |-> "e4", title |-> ""]>>)
    /\ result.value = TRUE

(* C27 *)

\* C27: logout, validate_token and get_user_info send their token with that one
\* request and leave the default headers of the AuthAPI session as they were:
\* whatever calls went before, a login, register or refresh_token request carries
\* no Authorization header.
C27_TokenOnThatRequestOnly ==
    /\ auth_session.authorization = Absent
    /\ (call.op \in {"login", "login_with_user_data", "register", "refresh_token"}) =>
          (req.authorization = Absent)
    /\ (call.op \in {"logout", "validate_token", "get_user_info"}) =>
          (req.authorization = "Bearer t1")

\* A login after a call that passed the token t1: the login request has no
\* Authorization header.
C27_Witness ==
    /\ call.op = "login"
    /\ "Bearer t1" \in auth_session.sent
    /\ req.authorization = Absent

\* The last page-object call returned v (it did not raise).
UiGave(v) == page.call.r.cls = v.cls /\ page.call.r = v

\* The last page-object call raised e.
UiRaised(e) == page.call.r.cls = "Raised" /\ page.call.r.exc = e

\* C30: when the wait times out, find_element raises TimeoutException again,
\* find_elements returns the empty list and is_visible returns False; so
\* get_events_count returns 0 and get_event_titles the empty list when no event
\* element appears, and get_error_message returns None when no error is shown.
C30_TimeoutOutcomes ==
    LET c == page.call
        d == page.call.before
    IN  /\ (c.op = "find_element" /\ c.locator \notin d.shown)
              => UiRaised("TimeoutException")
        /\ (c.op = "find_elements" /\ d.items = <<>>)
              => UiGave(PyValue("list", <<>>))
        /\ (c.op = "is_visible" /\ c.locator \notin d.shown)
              => UiGave(PyBool(FALSE))
        /\ (c.op = "get_events_count" /\ d.items = <<>>)
              => UiGave(PyValue("int", 0))
        /\ (c.op = "get_event_titles" /\ \A i \in DOMAIN d.items : ~d.items[i].readable)
              => UiGave(PyValue("list", <<>>))
        /\ (c.op = "get_error_message" /\ "ERROR_MESSAGE" \notin d.shown)
              => UiGave(PyNone)

\* get_events_count gave 0 on a page without events.
C30_Witness ==
    /\ page.call.op = "get_events_count"
    /\ page.call.before.items = <<>>
    /\ UiGave(PyValue("int", 0))

\* A text without the blanks at its ends.
Trimmed(text) ==
    LET inked == {i \in 1..Len(text) : text[i] # " "} IN
    IF inked = {} THEN <<>>
    ELSE SubSeq(text, CHOOSE i \in inked : \A j \in inked : i <= j,
                CHOOSE i \in inked : \A j \in inked : j <= i)

\* The positions (from 1) of the listed events that show this title.
Listed(items, title) ==
    {i \in DOMAIN items : items[i].readable /\ Trimmed(items[i].title) = title}

Clicks(log, locator) == {i \in DOMAIN log : log[i] = "click:" \o locator}

\* C29: set_recurring(flag) clicks the recurring checkbox at most once, and only
\* when its state differs from flag; when it returns the checkbox state is flag
\* and nothing else on the page changed; a second call with the same flag
\* clicks nothing and leaves the page as the first call left it.
C29_SetRecurringIdempotent ==
    LET c == page.call IN
    (c.op = "set_recurring" /\ c.r.cls # "Raised")
        => /\ page.dom.recurring = c.flag
           /\ page.dom = [c.before EXCEPT !.recurring = c.flag]
           /\ c.log \in {<<>>, <<"click:EVENT_RECURRING_CHECKBOX">>}
           /\ (c.log # <<>>) <=> (c.before.recurring # c.flag)
           /\ LET again == set_recurring(Out(page.dom, <<>>, NoExc), c.flag)
              IN  again = Out(page.dom, <<>>, NoExc)

\* set_recurring(True) found the checkbox selected and clicked nothing.
C29_Witness ==
    /\ page.call.op = "set_recurring"
    /\ page.call.flag
    /\ page.call.before.recurring
    /\ UiGave(PyNone)
    /\ page.call.log = <<>>

\* C22: when fill_event_form(event_data) has completed, the recurring checkbox
\* is selected exactly if event_data.is_recurring and the reminder select shows
\* event_data.reminder_minutes, whatever the form showed before (also in the
\* form edit_event opened).
C22_FormShowsEventData ==
    LET c == page.call IN
    (c.op \in {"fill_event_form", "edit_event"} /\ c.r.cls # "Raised"
        /\ "type:title" \in {c.log[i] : i \in DOMAIN c.log})
        => /\ page.dom.recurring = c.data.is_recurring
           /\ page.dom.reminder = ToString(c.data.reminder_minutes)

\* C21: delete_event(title) returns True only when the confirm-delete button
\* was clicked after the delete button, and False otherwise, also when no
\* event with that title is listed.
C21_TrueOnlyIfConfirmed ==
    LET c == page.call
        confirmed ==
            \E i \in Clicks(c.log, "DELETE_EVENT_BUTTON") :
                \E j \in Clicks(c.log, "CONFIRM_DELETE_BUTTON") : i < j
    IN  (c.op = "delete_event" /\ c.r.cls = "bool")
            => (c.r.value <=> confirmed)

\* The browser names the suite does not support.
UnsupportedNames == {safari, <<"S", "a", "f", "a", "r", "i">>, <<>>}

\* C23: a WebDriver the driver fixture created is quit exactly once when the
\* fixture is over (after a test that passed, failed or raised, or after an
\* exception of the set-up that followed the creation) and never before; for an
\* unsupported browser name no driver is created, ValueError leaves the fixture
\* and quit is not called.
C23_QuitOnceAtTeardown ==
    LET f == driver_fixture
        over == f.pc \in {"done", "raised"}
    IN  /\ (over /\ f.driver.made) => f.quits = 1
        /\ (~over \/ ~f.driver.made) => f.quits = 0
        /\ (f.pc = "done") => (f.driver.made /\ f.raised = NoExc)
        /\ (f.fails \in {"implicitly_wait", "set_page_load_timeout"}
               /\ f.browser_type \notin UnsupportedNames /\ f.pc # "setup")
              => (f.driver.made /\ f.pc = "raised" /\ f.quits = 1)
        /\ (f.browser_type \in UnsupportedNames /\ f.pc \notin {"unused", "setup"})
              => /\ ~f.driver.made
                 /\ f.pc = "raised"
                 /\ f.raised = "ValueError"
                 /\ f.quits = 0

\* The driver was created, setting the page-load timeout raised, and the driver
\* was quit.
C23_Witness ==
    /\ driver_fixture.fails = "set_page_load_timeout"
    /\ driver_fixture.driver = WebDriver(firefox)
    /\ driver_fixture.pc = "raised"
    /\ driver_fixture.quits = 1

====
